---- MODULE Spec2Model ----
(***************************************************************************)
(* Model of the fit-fighter motion classification engine:                  *)
(*   - the nine exercise detectors of src/fitfighter/detectors (each a     *)
(*     state machine stepped by detect(landmark_history) and reset()),     *)
(*   - the ExerciseDetectorManager of src/fitfighter/core.                 *)
(*                                                                         *)
(* Numbers: coordinates are in hundredths of the normalized camera units   *)
(* (0.45 is 45), visibilities and confidence thresholds in tenths (0.6 is  *)
(* 6), angles in whole degrees.  Angle thresholds that the code applies to *)
(* a single arccos are compared through the cosine, in exact integer       *)
(* arithmetic.                                                             *)
(*                                                                         *)
(* A call that raises is recorded in the result's exc field; the state     *)
(* assigned before the raise is kept, as in Python.                        *)
(***************************************************************************)
EXTENDS Integers, Sequences, FiniteSets, TLC

VARIABLES
    sel,               \* the detector kind a detector-level run drives ("manager" in manager runs)
    det,               \* the detector object's fields (manager runs: name -> object)
    twin,              \* a JumpingJackDetector constructed at the last reset() and fed the same calls since
    last,              \* what the most recent call was, what it was given and what it returned
    clock,             \* the time time.time() last returned, in half seconds
    landmark_history,  \* ExerciseDetectorManager.landmark_history (deque, maxlen history_size)
    detectors,         \* ExerciseDetectorManager.detectors: the registered names, in dict order
    active_exercises,  \* ExerciseDetectorManager.active_exercises
    exercise_counts,   \* ExerciseDetectorManager.exercise_counts
    session_stats,     \* ExerciseDetectorManager.session_stats
    snapshot           \* the dict process_landmarks last returned, as its caller reads it

vars == <<sel, det, twin, last, clock, landmark_history, detectors, active_exercises,
          exercise_counts, session_stats, snapshot>>

mgrvars ==
    <<landmark_history, detectors, active_exercises, exercise_counts, session_stats, snapshot>>

(***************************************************************************)
(* Bounds of the model.                                                    *)
(***************************************************************************)
\* a call that counts a repetition is made only while rep_count is below this
MaxReps == 1
\* counters the code never bounds (lunge matching frames, kick detections)
\* stop the run at this value
MaxCount == 4
\* an exercise duration is not incremented beyond this in a run
MaxDuration == 2
\* the burpee phase log is not extended beyond this length in a run
MaxLog == 6
\* the clock does not advance beyond this (half seconds)
MaxClock == 3
\* the history_size the manager of the model is constructed with
history_size == 2

(***************************************************************************)
(* Landmark indices (constants/landmark_indices.py).                       *)
(***************************************************************************)
NOSE == 0
LEFT_SHOULDER == 11
RIGHT_SHOULDER == 12
LEFT_ELBOW == 13
RIGHT_ELBOW == 14
LEFT_WRIST == 15
RIGHT_WRIST == 16
LEFT_HIP == 23
RIGHT_HIP == 24
LEFT_KNEE == 25
RIGHT_KNEE == 26
LEFT_ANKLE == 27
RIGHT_ANKLE == 28

AllLandmarks == 0..32

(***************************************************************************)
(* Frames.  A frame is one pose-estimation result: the set of landmark ids *)
(* it holds (ids), those among them whose visibility is low (low), the     *)
(* encoding of a landmark (fmt: "tuple" is (x, y, z, visibility), the      *)
(* encoding convert_mediapipe_landmarks produces; "dict" is a mapping with *)
(* the keys x, y, z, visibility, the encoding check_landmarks_visibility   *)
(* and get_landmark_position read), and the body pose (pose), a name whose *)
(* geometry the measurement operators below give.                          *)
(***************************************************************************)
Frame(pose, fmt, missing, low) ==
    [pose |-> pose, fmt |-> fmt, missing |-> missing, low |-> low]

\* the visibility value of a landmark of a frame, in tenths
Visibility(f, idx) == IF idx \in f.low THEN 3 ELSE 10

\* default of the confidence_threshold parameter (0.6), in tenths
confidence_threshold == 6

(***************************************************************************)
(* Results of a call: the object's fields after it, the value returned and *)
(* the exception raised ("none" when it returned).                         *)
(***************************************************************************)
Return(self, value) == [s |-> self, ret |-> value, exc |-> "none"]

Raise(self, exception) == [s |-> self, ret |-> FALSE, exc |-> exception]

(***************************************************************************)
(* BaseExerciseDetector.is_landmark_visible / are_landmarks_visible:       *)
(* landmarks[idx] raises KeyError on an id the frame omits, landmark[3]    *)
(* raises KeyError on a dict-encoded landmark.  The ids are visited in the *)
(* order of the list; the first one that raises or fails decides.          *)
(***************************************************************************)
RECURSIVE are_landmarks_visible(_, _, _)
are_landmarks_visible(landmarks, indices, threshold) ==
    IF indices = <<>> THEN "True"
    ELSE LET idx == Head(indices) IN
         IF idx \in landmarks.missing THEN "KeyError"
         ELSE IF landmarks.fmt = "dict" THEN "KeyError"
         ELSE IF ~(Visibility(landmarks, idx) >= threshold) THEN "False"
         ELSE are_landmarks_visible(landmarks, Tail(indices), threshold)

(***************************************************************************)
(* BaseExerciseDetector.check_landmarks_visibility: an empty frame and a   *)
(* missing id give False; landmarks[idx].get raises AttributeError on a    *)
(* tuple-encoded landmark.                                                 *)
(***************************************************************************)
RECURSIVE check_landmarks_visibility(_, _, _)
check_landmarks_visibility(landmarks, required_landmarks, threshold) ==
    IF landmarks.missing = AllLandmarks THEN "False"
    ELSE IF required_landmarks = <<>> THEN "True"
    ELSE LET lm_idx == Head(required_landmarks) IN
         IF lm_idx \in landmarks.missing THEN "False"
         ELSE IF landmarks.fmt = "tuple" THEN "AttributeError"
         ELSE IF Visibility(landmarks, lm_idx) < threshold THEN "False"
         ELSE check_landmarks_visibility(landmarks, Tail(required_landmarks), threshold)

(***************************************************************************)
(* BaseExerciseDetector.get_landmark_position: "None" for an empty frame,  *)
(* a missing id or a low visibility, "position" otherwise; lm.get raises   *)
(* AttributeError on a tuple-encoded landmark.                             *)
(***************************************************************************)
get_landmark_position(landmarks, landmark_idx, threshold) ==
    IF landmark_idx \in landmarks.missing THEN "None"
    ELSE IF landmarks.fmt = "tuple" THEN "AttributeError"
    ELSE IF Visibility(landmarks, landmark_idx) < threshold THEN "None"
    ELSE "position"

\* Python's None in a numeric field (all positions of the model are >= 0)
None == 0 - 1

\* an append that never evicts
DequeAppend_unbounded(q, x, n) ==
    Append(q, x)

\* collections.deque(maxlen = n).append
DequeAppend(q, x, n) ==
    IF Len(q) >= n THEN Append(Tail(q), x) ELSE Append(q, x)

\* BaseExerciseDetector.reset: the fields every detector has
BaseReset(self) ==
    [self EXCEPT !.rep_count = 0, !.is_active = FALSE, !.last_detection_state = FALSE]

(***************************************************************************)
(* Geometry of the poses the jumping-jack detector is driven with, as      *)
(* (x, y, z) in hundredths.  jj_closed_fixture and jj_open_fixture are the *)
(* closed_frame and open_frame of tests/test_jumping_jack_detector.py;     *)
(* jj_crossed (wrists in front of the chest, ankles together) and jj_half  *)
(* (arms at 45 degrees) are further inputs.                                *)
(***************************************************************************)
Position(pose, idx) ==
    CASE pose = "jj_closed_fixture" ->
           (CASE idx = LEFT_SHOULDER -> <<40, 30, 0>> [] idx = RIGHT_SHOULDER -> <<60, 30, 0>>
              [] idx = LEFT_WRIST -> <<35, 60, 0>>    [] idx = RIGHT_WRIST -> <<65, 60, 0>>
              [] idx = LEFT_HIP -> <<45, 60, 0>>      [] idx = RIGHT_HIP -> <<55, 60, 0>>
              [] idx = LEFT_ANKLE -> <<45, 90, 0>>    [] idx = RIGHT_ANKLE -> <<55, 90, 0>>
              [] OTHER -> <<50, 50, 0>>)
      [] pose = "jj_open_fixture" ->
           (CASE idx = LEFT_SHOULDER -> <<40, 30, 0>> [] idx = RIGHT_SHOULDER -> <<60, 30, 0>>
              [] idx = LEFT_WRIST -> <<20, 10, 0>>    [] idx = RIGHT_WRIST -> <<80, 10, 0>>
              [] idx = LEFT_HIP -> <<45, 60, 0>>      [] idx = RIGHT_HIP -> <<55, 60, 0>>
              [] idx = LEFT_ANKLE -> <<25, 90, 0>>    [] idx = RIGHT_ANKLE -> <<75, 90, 0>>
              [] OTHER -> <<50, 50, 0>>)
      [] pose = "jj_crossed" ->
           (CASE idx = LEFT_SHOULDER -> <<40, 30, 0>> [] idx = RIGHT_SHOULDER -> <<60, 30, 0>>
              [] idx = LEFT_WRIST -> <<50, 32, 0>>    [] idx = RIGHT_WRIST -> <<50, 32, 0>>
              [] idx = LEFT_HIP -> <<45, 60, 0>>      [] idx = RIGHT_HIP -> <<55, 60, 0>>
              [] idx = LEFT_ANKLE -> <<49, 90, 0>>    [] idx = RIGHT_ANKLE -> <<50, 90, 0>>
              [] OTHER -> <<50, 50, 0>>)
      [] pose = "jj_half" ->
           (CASE idx = LEFT_SHOULDER -> <<40, 30, 0>> [] idx = RIGHT_SHOULDER -> <<60, 30, 0>>
              [] idx = LEFT_WRIST -> <<50, 40, 0>>    [] idx = RIGHT_WRIST -> <<50, 40, 0>>
              [] idx = LEFT_HIP -> <<45, 60, 0>>      [] idx = RIGHT_HIP -> <<55, 60, 0>>
              [] idx = LEFT_ANKLE -> <<45, 90, 0>>    [] idx = RIGHT_ANKLE -> <<55, 90, 0>>
              [] OTHER -> <<50, 50, 0>>)
      [] OTHER -> <<50, 50, 0>>

(***************************************************************************)
(* utils/angle_calculator.calculate_2d_angle compared with a threshold.    *)
(* With ba = p1 - p2 and bc = p3 - p2 in the x-y plane, the angle is 0     *)
(* when |ba| |bc| < 1e-10 and arccos(clip(ba.bc / (|ba| |bc|))) otherwise. *)
(*   angle > 60  <=>  cos < 1/2        <=>  ba.bc <= 0 or 4 (ba.bc)^2 < |ba|^2 |bc|^2  *)
(*   angle < 30  <=>  cos > sqrt(3)/2  <=>  ba.bc > 0 and 4 (ba.bc)^2 > 3 |ba|^2 |bc|^2 *)
(***************************************************************************)
Dot2(p1, p2, p3) == (p1[1] - p2[1]) * (p3[1] - p2[1]) + (p1[2] - p2[2]) * (p3[2] - p2[2])

Norm2Sq(p, q) == (p[1] - q[1]) * (p[1] - q[1]) + (p[2] - q[2]) * (p[2] - q[2])

calculate_2d_angle_above_60(p1, p2, p3) ==
    LET d == Dot2(p1, p2, p3)
        m == Norm2Sq(p1, p2) * Norm2Sq(p3, p2)
    IN  IF m = 0 THEN FALSE
        ELSE d <= 0 \/ 4 * d * d < m

calculate_2d_angle_below_30(p1, p2, p3) ==
    LET d == Dot2(p1, p2, p3)
        m == Norm2Sq(p1, p2) * Norm2Sq(p3, p2)
    IN  IF m = 0 THEN TRUE
        ELSE d > 0 /\ 4 * d * d > 3 * m

\* utils/pose_processor.calculate_distance, squared
calculate_distance_sq(point1, point2) ==
    (point1[1] - point2[1]) * (point1[1] - point2[1])
    + (point1[2] - point2[2]) * (point1[2] - point2[2])
    + (point1[3] - point2[3]) * (point1[3] - point2[3])

(***************************************************************************)
(* JumpingJackDetector (detectors/jumping_jack_detector.py).               *)
(***************************************************************************)
JumpingJack_cooldown_frames == 10

JumpingJack_required_landmarks ==
    <<LEFT_SHOULDER, RIGHT_SHOULDER, LEFT_ELBOW, RIGHT_ELBOW, LEFT_WRIST, RIGHT_WRIST,
      LEFT_HIP, RIGHT_HIP, LEFT_KNEE, RIGHT_KNEE, LEFT_ANKLE, RIGHT_ANKLE>>

JumpingJack_init ==
    [ confidence_threshold |-> confidence_threshold,
      rep_count |-> 0,
      is_active |-> FALSE,
      last_detection_state |-> FALSE,
      cooldown_counter |-> 0,
      in_open_position |-> FALSE,
      in_closed_position |-> FALSE,
      position_history |-> <<>>,
      current_phase |-> "unknown",
      debug_values |-> "empty" ]

\* is_open: both arm angles above arm_angle_threshold (60) and the ankle
\* width over the shoulder width above leg_width_threshold (0.15 = 3/20)
JumpingJack_is_open(pose) ==
    LET ls == Position(pose, LEFT_SHOULDER)  rs == Position(pose, RIGHT_SHOULDER)
        lw == Position(pose, LEFT_WRIST)     rw == Position(pose, RIGHT_WRIST)
        sw == calculate_distance_sq(ls, rs)
        aw == calculate_distance_sq(Position(pose, LEFT_ANKLE), Position(pose, RIGHT_ANKLE))
    IN  /\ calculate_2d_angle_above_60(rs, ls, lw)
        /\ calculate_2d_angle_above_60(ls, rs, rw)
        /\ IF sw > 0 THEN 400 * aw > 9 * sw ELSE FALSE

\* is_closed: both arm angles below 30 and the normalized leg width below 0.075 = 3/40
JumpingJack_is_closed(pose) ==
    LET ls == Position(pose, LEFT_SHOULDER)  rs == Position(pose, RIGHT_SHOULDER)
        lw == Position(pose, LEFT_WRIST)     rw == Position(pose, RIGHT_WRIST)
        sw == calculate_distance_sq(ls, rs)
        aw == calculate_distance_sq(Position(pose, LEFT_ANKLE), Position(pose, RIGHT_ANKLE))
    IN  /\ calculate_2d_angle_below_30(rs, ls, lw)
        /\ calculate_2d_angle_below_30(ls, rs, rw)
        /\ IF sw > 0 THEN 1600 * aw < 9 * sw ELSE TRUE

Count(seq, P(_)) == Cardinality({i \in 1..Len(seq) : P(seq[i])})

\* lines 138-154: the phase the position window gives
JumpingJack_new_phase(position_history, current_phase) ==
    LET IsOpen(pos) == pos[1]
        IsClosed(pos) == pos[2]
        open_count == Count(position_history, IsOpen)
        closed_count == Count(position_history, IsClosed)
    IN  IF open_count >= Len(position_history) - 1 THEN "open"
        ELSE IF closed_count >= Len(position_history) - 1 THEN "closed"
        ELSE IF current_phase = "closed" \/ current_phase = "closing" THEN "opening"
        ELSE IF current_phase = "open" \/ current_phase = "opening" THEN "closing"
        ELSE "unknown"

\* a rep that is counted twice
JumpingJack_count_rep_twice(self, new_phase) ==
    IF self.current_phase = "open" /\ new_phase = "closing"
    THEN [self EXCEPT !.is_active = TRUE]
    ELSE IF self.current_phase = "closing" /\ new_phase = "closed" /\ self.is_active
    THEN [self EXCEPT !.rep_count = @ + 2,
                      !.cooldown_counter = JumpingJack_cooldown_frames,
                      !.is_active = FALSE]
    ELSE self

\* a rep that starts no cooldown
JumpingJack_count_rep_no_cooldown(self, new_phase) ==
    IF self.current_phase = "open" /\ new_phase = "closing"
    THEN [self EXCEPT !.is_active = TRUE]
    ELSE IF self.current_phase = "closing" /\ new_phase = "closed" /\ self.is_active
    THEN [self EXCEPT !.rep_count = @ + 1, !.is_active = FALSE]
    ELSE self

\* lines 156-165: arming on open -> closing, the rep on closing -> closed
JumpingJack_count_rep(self, new_phase) ==
    IF self.current_phase = "open" /\ new_phase = "closing"
    THEN [self EXCEPT !.is_active = TRUE]
    ELSE IF self.current_phase = "closing" /\ new_phase = "closed" /\ self.is_active
    THEN [self EXCEPT !.rep_count = @ + 1,
                      !.cooldown_counter = JumpingJack_cooldown_frames,
                      !.is_active = FALSE]
    ELSE self

JumpingJack_detect(self, landmark_hist) ==
    IF Len(landmark_hist) < 2 THEN Return(self, FALSE)
    ELSE IF self.cooldown_counter > 0
    THEN Return([self EXCEPT !.cooldown_counter = @ - 1], FALSE)
    ELSE
    LET current == landmark_hist[Len(landmark_hist)]
        visible == are_landmarks_visible(current, JumpingJack_required_landmarks,
                                         self.confidence_threshold)
    IN  IF visible = "KeyError" THEN Raise(self, "KeyError")
        ELSE IF visible = "False"
        THEN Return([self EXCEPT !.current_phase = "unknown"], FALSE)
        ELSE
        LET s1 == [self EXCEPT
                     !.debug_values = "metrics",
                     !.position_history =
                         DequeAppend(@, <<JumpingJack_is_open(current.pose),
                                          JumpingJack_is_closed(current.pose)>>, 5)]
            new_phase == JumpingJack_new_phase(s1.position_history, s1.current_phase)
            s2 == IF Len(s1.position_history) >= 3
                  THEN [JumpingJack_count_rep(s1, new_phase) EXCEPT !.current_phase = new_phase]
                  ELSE s1
            is_detected == s2.is_active
        IN  Return([s2 EXCEPT !.last_detection_state = is_detected], is_detected)

\* a reset that keeps the position window
JumpingJack_reset_keeps_window(self) ==
    [BaseReset(self) EXCEPT !.cooldown_counter = 0,
                            !.in_open_position = FALSE,
                            !.in_closed_position = FALSE,
                            !.current_phase = "unknown"]

JumpingJack_reset(self) ==
    [BaseReset(self) EXCEPT !.cooldown_counter = 0,
                            !.in_open_position = FALSE,
                            !.in_closed_position = FALSE,
                            !.position_history = <<>>,
                            !.current_phase = "unknown"]

(***************************************************************************)
(* What the geometry code measures on a pose: joint angles in degrees,     *)
(* heights (y grows downward) and lengths in hundredths.  These are the    *)
(* values the detectors compute from the landmark positions before they    *)
(* compare them with their thresholds; the poses are the inputs of the     *)
(* model.                                                                  *)
(*   knee_l, knee_r     hip-knee-ankle angle of each leg                   *)
(*   hip_angle          shoulder-hip-knee angle                            *)
(*   elbow_angle        wrist-elbow-shoulder angle (average of both arms)  *)
(*   body_angle         shoulder-hip line against the horizontal           *)
(*   torso_angle        shoulder-hip-knee angle of the midpoints           *)
(*   hip_y, shoulder_y, nose_y, ankle_y   heights of the midpoints         *)
(*   offset, body_length   where the torso is along the floor, and the     *)
(*                      shoulder-ankle distance                            *)
(*   ext_l, ext_r       3D hip-knee-ankle angle of each leg                *)
(*   rel_l, rel_r       ankle position relative to the knee, (x, y, z)     *)
(***************************************************************************)
BasePose ==
    [ knee_l |-> 175, knee_r |-> 175, hip_angle |-> 175, elbow_angle |-> 170,
      body_angle |-> 90, torso_angle |-> 175,
      hip_y |-> 50, shoulder_y |-> 30, nose_y |-> 0, ankle_y |-> 80,
      offset |-> 0, body_length |-> 60,
      ext_l |-> 175, ext_r |-> 175, rel_l |-> <<0, 20, 0>>, rel_r |-> <<0, 20, 0>> ]

Measure(pose) ==
    CASE pose = "stand" -> BasePose
      \* squat poses
      [] pose = "squat_low" ->
           [BasePose EXCEPT !.knee_l = 80, !.knee_r = 80, !.hip_angle = 80, !.hip_y = 70]
      [] pose = "squat_shallow" ->
           [BasePose EXCEPT !.knee_l = 80, !.knee_r = 80, !.hip_angle = 80, !.hip_y = 60]
      [] pose = "squat_mid" ->
           [BasePose EXCEPT !.knee_l = 130, !.knee_r = 130, !.hip_angle = 130, !.hip_y = 60]
      \* sit-up poses
      [] pose = "situp_lying" -> [BasePose EXCEPT !.hip_angle = 170, !.shoulder_y = 80]
      [] pose = "situp_sitting" -> [BasePose EXCEPT !.hip_angle = 60, !.shoulder_y = 50]
      [] pose = "situp_low" -> [BasePose EXCEPT !.hip_angle = 60, !.shoulder_y = 70]
      [] pose = "situp_mid" -> [BasePose EXCEPT !.hip_angle = 100, !.shoulder_y = 65]
      \* push-up poses
      [] pose = "pushup_up" ->
           [BasePose EXCEPT !.elbow_angle = 170, !.body_angle = 10, !.shoulder_y = 40]
      [] pose = "pushup_down" ->
           [BasePose EXCEPT !.elbow_angle = 80, !.body_angle = 5, !.shoulder_y = 60]
      [] pose = "pushup_mid" ->
           [BasePose EXCEPT !.elbow_angle = 120, !.body_angle = 8, !.shoulder_y = 50]
      [] pose = "pushup_upright" ->
           [BasePose EXCEPT !.elbow_angle = 170, !.body_angle = 80, !.shoulder_y = 40]
      \* plank poses
      [] pose = "plank_hold" ->
           [BasePose EXCEPT !.body_angle = 5, !.shoulder_y = 60,
                            !.hip_y = 63, !.body_length = 70]
      [] pose = "plank_shift" ->
           [BasePose EXCEPT !.body_angle = 5, !.shoulder_y = 60,
                            !.hip_y = 63, !.body_length = 70, !.offset = 10]
      [] pose = "plank_sag" ->
           [BasePose EXCEPT !.body_angle = 12, !.shoulder_y = 60,
                            !.hip_y = 74, !.body_length = 70]
      \* burpee poses (nose at 0.60 and ankles at 0.80: reference height 0.20)
      [] pose = "burpee_stand" -> [BasePose EXCEPT !.nose_y = 60, !.hip_y = 2]
      [] pose = "burpee_squat" ->
           [BasePose EXCEPT !.nose_y = 60, !.hip_y = 7, !.knee_l = 80, !.knee_r = 80,
                            !.torso_angle = 90]
      [] pose = "burpee_plank" -> [BasePose EXCEPT !.nose_y = 60, !.hip_y = 13]
      \* lunge poses
      [] pose = "lunge_down" -> [BasePose EXCEPT !.knee_l = 90, !.knee_r = 120, !.hip_y = 60]
      [] pose = "lunge_half" -> [BasePose EXCEPT !.knee_l = 120, !.knee_r = 160, !.hip_y = 55]
      \* kick poses: the right leg swings forward; the left leg stands
      [] pose = "kick_out" -> [BasePose EXCEPT !.rel_r = <<0, 10, 0 - 20>>]
      [] pose = "kick_high" -> [BasePose EXCEPT !.rel_r = <<0, 0, 0 - 25>>]
      [] pose = "kick_chamber" -> [BasePose EXCEPT !.rel_r = <<0, 0 - 5, 0 - 10>>, !.ext_r = 90]
      [] OTHER -> BasePose

\* (current - highest) / max(0.001, lowest - highest) < num / 10
\* (positions are whole hundredths, so the range is 0 or at least 1)
PositionInRangeBelow(current, lowest, highest, num) ==
    IF lowest - highest = 0 THEN 0 < num
    ELSE 10 * (current - highest) < num * (lowest - highest)

PositionInRangeAbove(current, lowest, highest, num) ==
    IF lowest - highest = 0 THEN FALSE
    ELSE 10 * (current - highest) > num * (lowest - highest)

\* a vote that a tie decides for 'down' or 'up'
MajorityVote_ties_win(position_history, new_position_state) ==
    LET IsDown(p) == p = "down"
        IsUp(p) == p = "up"
        IsTrans(p) == p = "transitioning"
        down_count == Count(position_history, IsDown)
        up_count == Count(position_history, IsUp)
        trans_count == Count(position_history, IsTrans)
    IN  IF Len(position_history) >= 3
        THEN IF down_count >= up_count /\ down_count >= trans_count THEN "down"
             ELSE IF up_count >= down_count /\ up_count >= trans_count THEN "up"
             ELSE "transitioning"
        ELSE new_position_state

\* the majority vote of squat and sit-up over the position window
MajorityVote(position_history, new_position_state) ==
    LET IsDown(p) == p = "down"
        IsUp(p) == p = "up"
        IsTrans(p) == p = "transitioning"
        down_count == Count(position_history, IsDown)
        up_count == Count(position_history, IsUp)
        trans_count == Count(position_history, IsTrans)
        Max(a, b) == IF a > b THEN a ELSE b
    IN  IF Len(position_history) >= 3
        THEN IF down_count > Max(up_count, trans_count) THEN "down"
             ELSE IF up_count > Max(down_count, trans_count) THEN "up"
             ELSE "transitioning"
        ELSE new_position_state

(***************************************************************************)
(* SquatDetector (detectors/squat_detector.py).                            *)
(***************************************************************************)
Squat_cooldown_frames == 10

Squat_required_landmarks ==
    <<LEFT_HIP, RIGHT_HIP, LEFT_KNEE, RIGHT_KNEE, LEFT_ANKLE, RIGHT_ANKLE>>

Squat_init ==
    [ confidence_threshold |-> confidence_threshold,
      rep_count |-> 0,
      is_active |-> FALSE,
      last_detection_state |-> FALSE,
      position_state |-> "up",
      position_history |-> <<>>,
      cooldown_counter |-> 0,
      lowest_hip_position |-> None,
      highest_hip_position |-> None,
      debug_values |-> "empty" ]

Squat_reset_detection_state(self) ==
    [self EXCEPT !.position_state = "up",
                 !.position_history = <<>>,
                 !.lowest_hip_position = None,
                 !.highest_hip_position = None,
                 !.is_active = FALSE]

\* a rep on down -> up whatever the vertical range
Squat_count_rep_any_range(self, old_position_state, new_position_state) ==
    IF old_position_state = "down" /\ new_position_state = "up"
    THEN [self EXCEPT !.rep_count = @ + 1, !.cooldown_counter = Squat_cooldown_frames]
    ELSE self

\* lines 183-190: the rep on down -> up, gated by the vertical range (0.15)
Squat_count_rep(self, old_position_state, new_position_state) ==
    IF /\ old_position_state = "down" /\ new_position_state = "up"
       /\ self.lowest_hip_position - self.highest_hip_position > 15
    THEN [self EXCEPT !.rep_count = @ + 1, !.cooldown_counter = Squat_cooldown_frames]
    ELSE self

Squat_detect(self, landmark_hist) ==
    IF Len(landmark_hist) < 2 THEN Return(self, FALSE)
    ELSE IF self.cooldown_counter > 0
    THEN Return([self EXCEPT !.cooldown_counter = @ - 1], FALSE)
    ELSE
    LET landmarks == landmark_hist[Len(landmark_hist)]
        visible == are_landmarks_visible(landmarks, Squat_required_landmarks,
                                         self.confidence_threshold)
        shoulders == are_landmarks_visible(landmarks, <<LEFT_SHOULDER, RIGHT_SHOULDER>>,
                                           self.confidence_threshold)
        m == Measure(landmarks.pose)
    IN  IF visible = "KeyError" THEN Raise(self, "KeyError")
        ELSE IF visible = "False"
        THEN Return([Squat_reset_detection_state(self) EXCEPT !.debug_values = "invalid"], FALSE)
        ELSE IF shoulders = "KeyError" THEN Raise(self, "KeyError")
        ELSE
        LET knee2 == m.knee_l + m.knee_r      \* twice avg_knee_angle
            \* avg_hip_angle > 170 and < 90; without the shoulders it is avg_knee_angle * 1.2
            hip_standing == IF shoulders = "True" THEN m.hip_angle > 170 ELSE 12 * knee2 > 3400
            hip_squat == IF shoulders = "True" THEN m.hip_angle < 90 ELSE 12 * knee2 < 1800
            current_hip_y == m.hip_y
            unset == self.lowest_hip_position = None \/ self.highest_hip_position = None
            low0 == IF unset THEN current_hip_y ELSE self.lowest_hip_position
            high0 == IF unset THEN current_hip_y ELSE self.highest_hip_position
            lowest == IF current_hip_y > low0 THEN current_hip_y ELSE low0
            highest == IF current_hip_y < high0 THEN current_hip_y ELSE high0
            old_position_state == self.position_state
            raw == IF /\ knee2 > 320 /\ hip_standing
                      /\ PositionInRangeBelow(current_hip_y, lowest, highest, 3)
                   THEN "up"
                   ELSE IF /\ knee2 < 200 /\ hip_squat
                           /\ PositionInRangeAbove(current_hip_y, lowest, highest, 7)
                   THEN "down"
                   ELSE "transitioning"
            s1 == [self EXCEPT !.lowest_hip_position = lowest,
                               !.highest_hip_position = highest,
                               !.position_history = DequeAppend(@, raw, 5)]
            new_position_state == MajorityVote(s1.position_history, raw)
            s2 == Squat_count_rep(s1, old_position_state, new_position_state)
            is_active == new_position_state \in {"down", "transitioning"}
        IN  Return([s2 EXCEPT !.position_state = new_position_state,
                              !.is_active = is_active,
                              !.last_detection_state = is_active,
                              !.debug_values = "metrics"], is_active)

Squat_reset(self) ==
    [Squat_reset_detection_state(BaseReset(self)) EXCEPT !.cooldown_counter = 0,
                                                         !.rep_count = 0]

(***************************************************************************)
(* SitupDetector (detectors/situp_detector.py).  __init__ never assigns    *)
(* debug_values, so both self.debug_values.update calls of detect raise    *)
(* AttributeError, after the assignments that precede them.                *)
(***************************************************************************)
Situp_cooldown_frames == 10

Situp_required_landmarks ==
    <<LEFT_SHOULDER, RIGHT_SHOULDER, LEFT_HIP, RIGHT_HIP, LEFT_KNEE, RIGHT_KNEE>>

Situp_init ==
    [ confidence_threshold |-> confidence_threshold,
      rep_count |-> 0,
      is_active |-> FALSE,
      last_detection_state |-> FALSE,
      is_in_situp_position |-> FALSE,
      position_state |-> "down",
      position_history |-> <<>>,
      cooldown_counter |-> 0,
      lowest_position |-> None,
      highest_position |-> None ]

Situp_reset_detection_state(self) ==
    [self EXCEPT !.is_in_situp_position = FALSE,
                 !.position_state = "down",
                 !.position_history = <<>>,
                 !.lowest_position = None,
                 !.highest_position = None,
                 !.is_active = FALSE]

\* lines 168-173
Situp_count_rep(self, old_position_state, new_position_state) ==
    IF /\ old_position_state = "down" /\ new_position_state = "up"
       /\ self.lowest_position - self.highest_position > 15
    THEN [self EXCEPT !.rep_count = @ + 1, !.cooldown_counter = Situp_cooldown_frames]
    ELSE self

Situp_detect(self, landmark_hist) ==
    IF Len(landmark_hist) < 2 THEN Return(self, FALSE)
    ELSE IF self.cooldown_counter > 0
    THEN Return([self EXCEPT !.cooldown_counter = @ - 1], FALSE)
    ELSE
    LET landmarks == landmark_hist[Len(landmark_hist)]
        visible == are_landmarks_visible(landmarks, Situp_required_landmarks,
                                         self.confidence_threshold)
        m == Measure(landmarks.pose)
    IN  IF visible = "KeyError" THEN Raise(self, "KeyError")
        ELSE IF visible = "False"
        THEN Raise(Situp_reset_detection_state(self), "AttributeError")
        ELSE
        LET current_y_position == m.shoulder_y
            unset == self.lowest_position = None \/ self.highest_position = None
            low0 == IF unset THEN current_y_position ELSE self.lowest_position
            high0 == IF unset THEN current_y_position ELSE self.highest_position
            lowest == IF current_y_position > low0 THEN current_y_position ELSE low0
            highest == IF current_y_position < high0 THEN current_y_position ELSE high0
            old_position_state == self.position_state
            raw == IF /\ m.hip_angle > 120
                      /\ PositionInRangeAbove(current_y_position, lowest, highest, 7)
                   THEN "down"
                   ELSE IF /\ m.hip_angle < 70
                           /\ PositionInRangeBelow(current_y_position, lowest, highest, 3)
                   THEN "up"
                   ELSE "transitioning"
            s1 == [self EXCEPT !.lowest_position = lowest,
                               !.highest_position = highest,
                               !.position_history = DequeAppend(@, raw, 5)]
            new_position_state == MajorityVote(s1.position_history, raw)
            s2 == Situp_count_rep(s1, old_position_state, new_position_state)
            is_active == new_position_state \in {"down", "transitioning", "up"}
        IN  Raise([s2 EXCEPT !.position_state = new_position_state,
                             !.is_in_situp_position = is_active,
                             !.is_active = is_active,
                             !.last_detection_state = is_active], "AttributeError")

Situp_reset(self) ==
    [Situp_reset_detection_state(BaseReset(self)) EXCEPT !.cooldown_counter = 0]

(***************************************************************************)
(* PushUpDetector (detectors/pushup_detector.py).  last_update_time is     *)
(* only ever written; the model keeps whether it is set.                   *)
(***************************************************************************)
PushUp_required_landmarks ==
    <<LEFT_SHOULDER, RIGHT_SHOULDER, LEFT_ELBOW, RIGHT_ELBOW, LEFT_WRIST, RIGHT_WRIST,
      LEFT_HIP, RIGHT_HIP>>

PushUp_init ==
    [ confidence_threshold |-> confidence_threshold,
      rep_count |-> 0,
      is_active |-> FALSE,
      last_detection_state |-> FALSE,
      is_in_pushup_position |-> FALSE,
      position_state |-> "up",
      last_update_time |-> "None",
      lowest_position |-> None,
      highest_position |-> None,
      debug_values |-> "empty" ]

PushUp_reset_detection_state(self) ==
    [self EXCEPT !.is_in_pushup_position = FALSE,
                 !.position_state = "up",
                 !.lowest_position = None,
                 !.highest_position = None,
                 !.is_active = FALSE]

PushUp_partial_reset(self) ==
    [self EXCEPT !.lowest_position = None, !.highest_position = None]

\* lines 182-186
PushUp_count_rep(self, old_position_state, new_position_state, is_body_horizontal) ==
    IF /\ old_position_state = "down" /\ new_position_state = "up"
       /\ self.lowest_position - self.highest_position > 15
       /\ is_body_horizontal
    THEN [self EXCEPT !.rep_count = @ + 1]
    ELSE self

PushUp_detect(self, landmark_hist) ==
    IF Len(landmark_hist) < 2 THEN Return(self, FALSE)
    ELSE
    LET landmarks == landmark_hist[Len(landmark_hist)]
        s0 == [self EXCEPT !.last_update_time = "time"]
        visible == are_landmarks_visible(landmarks, PushUp_required_landmarks,
                                         self.confidence_threshold)
        m == Measure(landmarks.pose)
    IN  IF visible = "KeyError" THEN Raise(s0, "KeyError")
        ELSE IF visible = "False"
        THEN Return([PushUp_reset_detection_state(s0) EXCEPT !.debug_values = "invalid"], FALSE)
        ELSE
        LET is_body_horizontal == m.body_angle < 30
            current_y_position == m.shoulder_y
            unset == s0.lowest_position = None \/ s0.highest_position = None
            low0 == IF unset THEN current_y_position ELSE s0.lowest_position
            high0 == IF unset THEN current_y_position ELSE s0.highest_position
            lowest == IF current_y_position > low0 THEN current_y_position ELSE low0
            highest == IF current_y_position < high0 THEN current_y_position ELSE high0
            old_position_state == s0.position_state
            new_position_state ==
                IF /\ m.elbow_angle < 90
                   /\ PositionInRangeAbove(current_y_position, lowest, highest, 7)
                THEN "down"
                ELSE IF /\ m.elbow_angle > 160
                        /\ PositionInRangeBelow(current_y_position, lowest, highest, 3)
                THEN "up"
                ELSE "transitioning"
            s1 == [s0 EXCEPT !.lowest_position = lowest, !.highest_position = highest]
            s2 == PushUp_count_rep(s1, old_position_state, new_position_state,
                                   is_body_horizontal)
            s3 == [s2 EXCEPT !.position_state = new_position_state,
                             !.is_in_pushup_position = is_body_horizontal,
                             !.is_active = is_body_horizontal]
            s4 == IF ~is_body_horizontal THEN PushUp_partial_reset(s3) ELSE s3
        IN  Return([s4 EXCEPT !.debug_values = "metrics"], s4.is_active)

PushUp_reset(self) ==
    [PushUp_reset_detection_state(BaseReset(self)) EXCEPT !.rep_count = 0]

(***************************************************************************)
(* PlankDetector (detectors/plank_detector.py).  current_time is the value *)
(* time.time() returns in the call, in half seconds.  last_update_time is  *)
(* only ever written; the model keeps whether it is set.                   *)
(***************************************************************************)
\* min_plank_time (1.0 s), in half seconds
Plank_min_plank_time == 2

Plank_required_landmarks ==
    <<LEFT_SHOULDER, RIGHT_SHOULDER, LEFT_ELBOW, RIGHT_ELBOW, LEFT_HIP, RIGHT_HIP,
      LEFT_ANKLE, RIGHT_ANKLE>>

Plank_init ==
    [ confidence_threshold |-> confidence_threshold,
      rep_count |-> 0,
      is_active |-> FALSE,
      last_detection_state |-> FALSE,
      is_in_plank_position |-> FALSE,
      plank_start_time |-> None,
      plank_duration |-> 0,
      last_update_time |-> "None",
      previous_positions |-> "None",
      debug_values |-> "empty" ]

\* a reset that keeps the hold
Plank_reset_plank_state_keeps_hold(self) ==
    self

Plank_reset_plank_state(self) ==
    [self EXCEPT !.is_in_plank_position = FALSE, !.plank_start_time = None]

\* whole part of the square root (distances are rounded down to hundredths)
ISqrt(n) == CHOOSE r \in 0..150 : r * r <= n /\ n < (r + 1) * (r + 1)

\* lines 136-148: the torso moved less than stability_threshold (0.03) of the body length
Plank_is_stable(previous_positions, m) ==
    IF previous_positions = "None" THEN TRUE
    ELSE LET prev == Measure(previous_positions)
             dx == m.offset - prev.offset
             ds == m.shoulder_y - prev.shoulder_y
             dh == m.hip_y - prev.hip_y
             shoulder_movement == ISqrt(dx * dx + ds * ds)
             hip_movement == ISqrt(dx * dx + dh * dh)
             length == IF m.body_length > 10 THEN m.body_length ELSE 10
         IN  100 * (shoulder_movement + hip_movement) < 3 * 2 * length

\* lines 185-202: the hold ends; it counts when it lasted min_plank_time
Plank_end_hold(self, current_time) ==
    LET plank_duration == current_time - self.plank_start_time
        counted == IF plank_duration >= Plank_min_plank_time
                   THEN [self EXCEPT !.rep_count = @ + 1]
                   ELSE self
    IN  Plank_reset_plank_state([counted EXCEPT !.plank_duration = plank_duration])

Plank_detect(self, landmark_hist, current_time) ==
    IF Len(landmark_hist) < 2 THEN Return(self, FALSE)
    ELSE
    LET landmarks == landmark_hist[Len(landmark_hist)]
        s0 == [self EXCEPT !.last_update_time = "time"]
        visible == are_landmarks_visible(landmarks, Plank_required_landmarks,
                                         self.confidence_threshold)
        m == Measure(landmarks.pose)
    IN  IF visible = "KeyError" THEN Raise(s0, "KeyError")
        ELSE IF visible = "False"
        THEN Return([Plank_reset_plank_state(s0) EXCEPT !.debug_values = "invalid"], FALSE)
        ELSE
        LET is_stable == Plank_is_stable(s0.previous_positions, m)
            s1 == [s0 EXCEPT !.previous_positions = landmarks.pose,
                             !.debug_values = "metrics"]
            length == IF m.body_length > 10 THEN m.body_length ELSE 10
            dy == IF m.hip_y > m.shoulder_y THEN m.hip_y - m.shoulder_y
                  ELSE m.shoulder_y - m.hip_y
            \* hip_elevation = |hip_y - shoulder_y| / max(0.1, body_length) < 0.15
            is_plank == m.body_angle < 15 /\ 100 * dy < 15 * length /\ is_stable
            s2 == IF is_plank
                  THEN IF ~s1.is_in_plank_position
                       THEN [s1 EXCEPT !.is_in_plank_position = TRUE,
                                       !.plank_start_time = current_time]
                       ELSE [s1 EXCEPT !.plank_duration = current_time - s1.plank_start_time]
                  ELSE IF s1.is_in_plank_position
                       THEN Plank_end_hold(s1, current_time)
                       ELSE Plank_reset_plank_state(s1)
        IN  Return([s2 EXCEPT !.is_active = s2.is_in_plank_position], s2.is_in_plank_position)

Plank_reset(self) ==
    [Plank_reset_plank_state(BaseReset(self)) EXCEPT !.plank_duration = 0,
                                                     !.previous_positions = "None"]

(***************************************************************************)
(* BurpeeDetector (detectors/burpee_detector.py).  phase_history (the last *)
(* 10 phases) is appended to and cleared but never read; the model leaves  *)
(* it out.                                                                 *)
(***************************************************************************)
Burpee_cooldown_frames == 15

Burpee_max_sequence_length == 20

Burpee_required_landmarks ==
    <<LEFT_SHOULDER, RIGHT_SHOULDER, LEFT_HIP, RIGHT_HIP, LEFT_KNEE, RIGHT_KNEE,
      LEFT_ANKLE, RIGHT_ANKLE>>

Burpee_init ==
    [ confidence_threshold |-> confidence_threshold,
      rep_count |-> 0,
      is_active |-> FALSE,
      last_detection_state |-> FALSE,
      current_phase |-> "standing",
      cooldown_counter |-> 0,
      phase_sequence |-> <<>>,
      lowest_hip_position |-> None,
      highest_hip_position |-> None,
      reference_height |-> None,
      debug_values |-> "empty" ]

\* _determine_phase; the heights in hundredths, norm_hip_height is
\* 1 - hip_height / reference_height, or 0 when reference_height is 0
Burpee_determine_phase(knee2, body_angle, hip_height, reference_height, vertical_velocity) ==
    LET \* norm_hip_height > num / 100 and < num / 100
        NormAbove(num) == IF reference_height = 0 THEN FALSE
                          ELSE 100 * (reference_height - hip_height) > num * reference_height
        NormBelow(num) == IF reference_height = 0 THEN TRUE
                          ELSE 100 * (reference_height - hip_height) < num * reference_height
        dev == IF body_angle > 180 THEN body_angle - 180 ELSE 180 - body_angle
    IN  IF vertical_velocity > 5 THEN "jump"
        ELSE IF NormAbove(85) /\ knee2 > 320 THEN "standing"
        ELSE IF NormAbove(60) /\ knee2 < 200 THEN "squat"
        ELSE IF NormBelow(40) /\ dev < 30 THEN "plank"
        ELSE "transitioning"

\* the forward pass of _check_sequence_completion: how many of
\* standing, squat, plank, squat, jump have been matched, in order
RECURSIVE Burpee_scan(_, _)
Burpee_scan(phase_sequence, found) ==
    IF phase_sequence = <<>> THEN found
    ELSE LET phase == Head(phase_sequence)
             expected == <<"standing", "squat", "plank", "squat", "jump", "standing">>
         IN  IF found < 6 /\ phase = expected[found + 1]
             THEN Burpee_scan(Tail(phase_sequence), found + 1)
             ELSE Burpee_scan(Tail(phase_sequence), found)

\* a completion check that is content with a jump
Burpee_check_jump_only(phase_sequence) ==
    IF Len(phase_sequence) < 4 THEN FALSE
    ELSE \E i \in 1..Len(phase_sequence) : phase_sequence[i] = "jump"

Burpee_check_sequence_completion(phase_sequence) ==
    IF Len(phase_sequence) < 4 THEN FALSE
    ELSE Burpee_scan(phase_sequence, 0) >= 5

Burpee_reset_sequence(self) == [self EXCEPT !.phase_sequence = <<>>]

Burpee_reset_detection_state(self) ==
    [self EXCEPT !.current_phase = "standing",
                 !.phase_sequence = <<>>,
                 !.lowest_hip_position = None,
                 !.highest_hip_position = None,
                 !.is_active = FALSE]

\* a log that receives the phase of every frame
Burpee_log_phase_every_frame(self, new_phase) ==
    LET log == Append(IF Len(self.phase_sequence) >= Burpee_max_sequence_length
                      THEN Tail(self.phase_sequence)
                      ELSE self.phase_sequence, new_phase)
    IN  [self EXCEPT !.phase_sequence = log, !.current_phase = new_phase]

\* lines 141-148: a phase change is appended to the log, the oldest entry dropped at capacity
Burpee_log_phase(self, new_phase) ==
    LET log == IF new_phase # self.current_phase
               THEN Append(IF Len(self.phase_sequence) >= Burpee_max_sequence_length
                           THEN Tail(self.phase_sequence)
                           ELSE self.phase_sequence, new_phase)
               ELSE self.phase_sequence
    IN  [self EXCEPT !.phase_sequence = log, !.current_phase = new_phase]

\* lines 153-162
Burpee_commit(self) ==
    LET completed_burpee == Burpee_check_sequence_completion(self.phase_sequence)
        s1 == IF completed_burpee
              THEN Burpee_reset_sequence([self EXCEPT !.rep_count = @ + 1,
                                                      !.cooldown_counter = Burpee_cooldown_frames])
              ELSE self
    IN  [s1 EXCEPT !.is_active = s1.current_phase # "standing" \/ completed_burpee]

\* prev_landmarks[self.left_hip][i], prev_landmarks[self.right_hip][i]
Burpee_prev_hips_readable(prev_landmarks) ==
    /\ LEFT_HIP \notin prev_landmarks.missing
    /\ RIGHT_HIP \notin prev_landmarks.missing
    /\ prev_landmarks.fmt = "tuple"

Burpee_detect(self, landmark_hist) ==
    IF Len(landmark_hist) < 2 THEN Return(self, FALSE)
    ELSE IF self.cooldown_counter > 0
    THEN Return([self EXCEPT !.cooldown_counter = @ - 1], FALSE)
    ELSE
    LET landmarks == landmark_hist[Len(landmark_hist)]
        prev_landmarks == landmark_hist[Len(landmark_hist) - 1]
        visible == are_landmarks_visible(landmarks, Burpee_required_landmarks,
                                         self.confidence_threshold)
        m == Measure(landmarks.pose)
    IN  IF visible = "KeyError" THEN Raise(self, "KeyError")
        ELSE IF visible = "False"
        THEN Return([Burpee_reset_detection_state(self) EXCEPT !.debug_values = "invalid"], FALSE)
        ELSE IF NOSE \in landmarks.missing THEN Raise(self, "KeyError")
        ELSE
        LET hip_height == m.hip_y
            ref == IF self.reference_height = None
                   THEN (IF m.nose_y > m.ankle_y THEN m.nose_y - m.ankle_y
                         ELSE m.ankle_y - m.nose_y)
                   ELSE self.reference_height
            s1 == [self EXCEPT
                     !.reference_height = ref,
                     !.lowest_hip_position =
                         IF @ = None \/ hip_height > @ THEN hip_height ELSE @,
                     !.highest_hip_position =
                         IF @ = None \/ hip_height < @ THEN hip_height ELSE @]
        IN  IF ~Burpee_prev_hips_readable(prev_landmarks) THEN Raise(s1, "KeyError")
            ELSE
            LET vertical_velocity == Measure(prev_landmarks.pose).hip_y - hip_height
                new_phase == Burpee_determine_phase(m.knee_l + m.knee_r, m.torso_angle,
                                                    hip_height, ref, vertical_velocity)
                s2 == Burpee_commit(Burpee_log_phase(s1, new_phase))
            IN  Return([s2 EXCEPT !.last_detection_state = s2.is_active,
                                  !.debug_values = "metrics"], s2.is_active)

Burpee_reset(self) ==
    [Burpee_reset_detection_state(BaseReset(self)) EXCEPT !.cooldown_counter = 0,
                                                          !.rep_count = 0,
                                                          !.reference_height = None]

(***************************************************************************)
(* LungeDetector (detectors/lunge_detector.py).  It reads dict-encoded     *)
(* frames and does not override reset().                                   *)
(***************************************************************************)
Lunge_consecutive_frames_threshold == 3

Lunge_required_landmarks ==
    <<LEFT_SHOULDER, RIGHT_SHOULDER, LEFT_HIP, RIGHT_HIP, LEFT_KNEE, RIGHT_KNEE,
      LEFT_ANKLE, RIGHT_ANKLE>>

Lunge_init ==
    [ confidence_threshold |-> confidence_threshold,
      rep_count |-> 0,
      is_active |-> FALSE,
      last_detection_state |-> FALSE,
      state |-> "up",
      consecutive_matching_frames |-> 0,
      cooldown_counter |-> 0,
      debug_info |-> "empty" ]

\* lines 109-132: "raise" when the frame five back cannot be read
Lunge_hip_movement(self, landmark_hist) ==
    IF Len(landmark_hist) > 5
    THEN LET previous_landmarks == landmark_hist[Len(landmark_hist) - 4]
             visible == check_landmarks_visibility(previous_landmarks,
                            <<LEFT_HIP, RIGHT_HIP>>, self.confidence_threshold)
         IN  IF visible = "AttributeError" THEN [exc |-> TRUE, value |-> 0]
             ELSE IF visible = "True"
             THEN [exc |-> FALSE,
                   value |-> Measure(landmark_hist[Len(landmark_hist)].pose).hip_y
                             - Measure(previous_landmarks.pose).hip_y]
             ELSE [exc |-> FALSE, value |-> 0]
    ELSE [exc |-> FALSE, value |-> 0]

\* lines 145-181
Lunge_step(self, forward_knee_angle, rear_knee_angle, hip_movement) ==
    LET prev_state == self.state
        new_state == IF forward_knee_angle < 110 /\ rear_knee_angle < 150 /\ hip_movement <= 0
                     THEN "down" ELSE "up"
        s1 == [self EXCEPT !.consecutive_matching_frames =
                               IF new_state = prev_state THEN @ + 1 ELSE 1]
        s2 == IF s1.consecutive_matching_frames >= Lunge_consecutive_frames_threshold
              THEN [s1 EXCEPT !.state = new_state] ELSE s1
    IN  IF s2.cooldown_counter <= 0 /\ prev_state = "down" /\ s2.state = "up"
        THEN Return([s2 EXCEPT !.rep_count = @ + 1, !.cooldown_counter = 15,
                               !.is_active = TRUE], TRUE)
        ELSE Return([s2 EXCEPT !.cooldown_counter = IF @ > 0 THEN @ - 1 ELSE @,
                               !.is_active = forward_knee_angle < 130],
                    forward_knee_angle < 130)

\* lines 69-181: what detect does once the history is long enough
Lunge_analyze(self, landmark_hist) ==
    LET landmarks == landmark_hist[Len(landmark_hist)]
        visible == check_landmarks_visibility(landmarks, Lunge_required_landmarks,
                                              self.confidence_threshold)
        m == Measure(landmarks.pose)
        forward_knee_angle == IF m.knee_l < m.knee_r THEN m.knee_l ELSE m.knee_r
        rear_knee_angle == IF m.knee_l < m.knee_r THEN m.knee_r ELSE m.knee_l
        hip_movement == Lunge_hip_movement(self, landmark_hist)
    IN  IF visible = "AttributeError" THEN Raise(self, "AttributeError")
        ELSE IF visible = "False"
        THEN Return([self EXCEPT !.debug_info = "invisible"], FALSE)
        ELSE IF hip_movement.exc THEN Raise(self, "AttributeError")
        ELSE Lunge_step([self EXCEPT !.debug_info = "metrics"],
                        forward_knee_angle, rear_knee_angle, hip_movement.value)

\* a detect that is content with one frame
Lunge_detect_one_frame(self, landmark_hist) ==
    IF Len(landmark_hist) < 1 THEN Return(self, FALSE)
    ELSE Lunge_analyze(self, landmark_hist)

Lunge_detect(self, landmark_hist) ==
    IF Len(landmark_hist) < 2 THEN Return(self, FALSE)
    ELSE Lunge_analyze(self, landmark_hist)

\* the inherited BaseExerciseDetector.reset
Lunge_reset(self) == [BaseReset(self) EXCEPT !.debug_info = "empty"]

(***************************************************************************)
(* KickDetector (detectors/kick_detector.py).  It reads dict-encoded       *)
(* frames and does not override reset().  ankle_position_history is never  *)
(* written.                                                                *)
(***************************************************************************)
Kick_cooldown_frames == 15

Kick_consecutive_frames_required == 2

Kick_required_landmarks ==
    <<LEFT_HIP, RIGHT_HIP, LEFT_KNEE, RIGHT_KNEE, LEFT_ANKLE, RIGHT_ANKLE>>

Kick_init ==
    [ confidence_threshold |-> confidence_threshold,
      rep_count |-> 0,
      is_active |-> FALSE,
      last_detection_state |-> FALSE,
      cooldown_counter |-> 0,
      consecutive_detection_counter |-> 0,
      state |-> "neutral",
      debug_info |-> "zero" ]

\* _calculate_leg_velocity > velocity_threshold (0.05):
\* sqrt(dx^2 + dy^2 + 1.5 dz^2) > 5 hundredths; "raise" when the previous
\* frame's landmark cannot be read, 0 when it is missing or not visible
Kick_leg_velocity(self, rel_current, rel_previous, previous, ankle_idx, knee_idx) ==
    LET previous_ankle == get_landmark_position(previous, ankle_idx, self.confidence_threshold)
        previous_knee == get_landmark_position(previous, knee_idx, self.confidence_threshold)
        dx == rel_current[1] - rel_previous[1]
        dy == rel_current[2] - rel_previous[2]
        dz == rel_current[3] - rel_previous[3]
    IN  IF previous_ankle = "AttributeError" \/ previous_knee = "AttributeError" THEN "raise"
        ELSE IF previous_ankle = "None" \/ previous_knee = "None" THEN "slow"
        ELSE IF 2 * dx * dx + 2 * dy * dy + 3 * dz * dz > 50 THEN "fast"
        ELSE "slow"

\* a step that commits on every frame of a kick
Kick_step_every_frame(self, current_detection) ==
    LET s1 == [self EXCEPT !.consecutive_detection_counter =
                               IF current_detection THEN @ + 1 ELSE 0]
        is_kick == s1.consecutive_detection_counter >= Kick_consecutive_frames_required
        s2 == IF is_kick
              THEN [s1 EXCEPT !.cooldown_counter = Kick_cooldown_frames, !.rep_count = @ + 1]
              ELSE s1
    IN  Return([s2 EXCEPT !.last_detection_state = is_kick, !.is_active = is_kick], is_kick)

\* lines 140-157
Kick_step(self, current_detection) ==
    LET s1 == [self EXCEPT !.consecutive_detection_counter =
                               IF current_detection THEN @ + 1 ELSE 0]
        is_kick == s1.consecutive_detection_counter >= Kick_consecutive_frames_required
        s2 == IF is_kick /\ ~s1.last_detection_state
              THEN [s1 EXCEPT !.cooldown_counter = Kick_cooldown_frames, !.rep_count = @ + 1]
              ELSE s1
    IN  Return([s2 EXCEPT !.last_detection_state = is_kick, !.is_active = is_kick], is_kick)

Kick_detect(self, landmark_hist) ==
    IF self.cooldown_counter > 0
    THEN Return([self EXCEPT !.cooldown_counter = @ - 1], FALSE)
    ELSE IF Len(landmark_hist) < 3 THEN Return(self, FALSE)
    ELSE
    LET current == landmark_hist[Len(landmark_hist)]
        previous == landmark_hist[Len(landmark_hist) - 1]
        visible == check_landmarks_visibility(current, Kick_required_landmarks,
                                              self.confidence_threshold)
        m == Measure(current.pose)
        pm == Measure(previous.pose)
        left_velocity == Kick_leg_velocity(self, m.rel_l, pm.rel_l, previous,
                                           LEFT_ANKLE, LEFT_KNEE)
        right_velocity == Kick_leg_velocity(self, m.rel_r, pm.rel_r, previous,
                                            RIGHT_ANKLE, RIGHT_KNEE)
        left_kick == left_velocity = "fast" /\ m.ext_l > 140
        right_kick == right_velocity = "fast" /\ m.ext_r > 140
    IN  IF visible = "AttributeError" THEN Raise(self, "AttributeError")
        ELSE IF visible = "False"
        THEN Return([self EXCEPT !.debug_info = "invisible"], FALSE)
        ELSE IF left_velocity = "raise" \/ right_velocity = "raise"
        THEN Raise(self, "AttributeError")
        ELSE Kick_step([self EXCEPT !.debug_info = "metrics"], left_kick \/ right_kick)

\* the inherited BaseExerciseDetector.reset
Kick_reset(self) == [BaseReset(self) EXCEPT !.debug_info = "empty"]

(***************************************************************************)
(* ArmCirclesDetector (detectors/arm_circles_detector.py).  The class      *)
(* never creates self.debug_values, so the update at line 104 raises       *)
(* AttributeError on every frame that passes the visibility check; the     *)
(* statements after it (circle tracking, lines 114-178) never run.  It     *)
(* does not override reset().  The per-arm dictionaries are pairs indexed  *)
(* by side (1 = "left", 2 = "right"); angles are whole degrees and a       *)
(* completion fraction is kept in 360ths (0.9 is 324).                     *)
(***************************************************************************)
ArmCircles_cooldown_frames == 15

ArmCircles_required_landmarks ==
    <<LEFT_SHOULDER, RIGHT_SHOULDER, LEFT_ELBOW, RIGHT_ELBOW, LEFT_WRIST, RIGHT_WRIST>>

ArmCircles_init ==
    [ confidence_threshold |-> confidence_threshold,
      rep_count |-> 0,
      is_active |-> FALSE,
      last_detection_state |-> FALSE,
      cooldown_counter |-> 0,
      left_wrist_positions |-> <<>>,
      right_wrist_positions |-> <<>>,
      active_arm |-> "None",
      circle_completion |-> <<0, 0>>,
      last_angle |-> <<None, None>>,
      angle_history |-> << <<>>, <<>> >> ]

ArmCircles_reset_circle_tracking(self) ==
    [self EXCEPT !.circle_completion = <<0, 0>>,
                 !.last_angle = <<None, None>>,
                 !.angle_history = << <<>>, <<>> >>]

ArmCircles_reset_tracking(self) ==
    ArmCircles_reset_circle_tracking(
        [self EXCEPT !.left_wrist_positions = <<>>,
                     !.right_wrist_positions = <<>>,
                     !.active_arm = "None"])

ArmCircles_detect(self, landmark_hist) ==
    IF Len(landmark_hist) < 2 THEN Return(self, FALSE)
    ELSE IF self.cooldown_counter > 0
    THEN Return([self EXCEPT !.cooldown_counter = @ - 1], FALSE)
    ELSE
    LET current == landmark_hist[Len(landmark_hist)]
        previous == landmark_hist[Len(landmark_hist) - 1]
        visible == are_landmarks_visible(current, ArmCircles_required_landmarks,
                                         self.confidence_threshold)
    IN  IF visible = "KeyError" THEN Raise(self, "KeyError")
        ELSE IF visible = "False" THEN Return(ArmCircles_reset_tracking(self), FALSE)
        \* previous[15], previous[16] and their coordinates
        ELSE IF LEFT_WRIST \in previous.missing \/ RIGHT_WRIST \in previous.missing
                \/ previous.fmt # "tuple"
        THEN Raise(self, "KeyError")
        ELSE Raise(self, "AttributeError")

\* the inherited BaseExerciseDetector.reset
ArmCircles_reset(self) == BaseReset(self)

(***************************************************************************)
(* The nine detector classes behind one interface.                         *)
(***************************************************************************)
Kinds ==
    {"JumpingJack", "Squat", "Situp", "PushUp", "Plank", "Burpee", "Lunge", "Kick",
     "ArmCircles"}

\* the object a constructor call returns
Construct(kind) ==
    CASE kind = "JumpingJack" -> JumpingJack_init
      [] kind = "Squat" -> Squat_init
      [] kind = "Situp" -> Situp_init
      [] kind = "PushUp" -> PushUp_init
      [] kind = "Plank" -> Plank_init
      [] kind = "Burpee" -> Burpee_init
      [] kind = "Lunge" -> Lunge_init
      [] kind = "Kick" -> Kick_init
      [] kind = "ArmCircles" -> ArmCircles_init

\* detector.detect(landmark_hist), with time.time() returning current_time
detect(kind, self, landmark_hist, current_time) ==
    CASE kind = "JumpingJack" -> JumpingJack_detect(self, landmark_hist)
      [] kind = "Squat" -> Squat_detect(self, landmark_hist)
      [] kind = "Situp" -> Situp_detect(self, landmark_hist)
      [] kind = "PushUp" -> PushUp_detect(self, landmark_hist)
      [] kind = "Plank" -> Plank_detect(self, landmark_hist, current_time)
      [] kind = "Burpee" -> Burpee_detect(self, landmark_hist)
      [] kind = "Lunge" -> Lunge_detect(self, landmark_hist)
      [] kind = "Kick" -> Kick_detect(self, landmark_hist)
      [] kind = "ArmCircles" -> ArmCircles_detect(self, landmark_hist)

\* detector.reset()
reset(kind, self) ==
    CASE kind = "JumpingJack" -> JumpingJack_reset(self)
      [] kind = "Squat" -> Squat_reset(self)
      [] kind = "Situp" -> Situp_reset(self)
      [] kind = "PushUp" -> PushUp_reset(self)
      [] kind = "Plank" -> Plank_reset(self)
      [] kind = "Burpee" -> Burpee_reset(self)
      [] kind = "Lunge" -> Lunge_reset(self)
      [] kind = "Kick" -> Kick_reset(self)
      [] kind = "ArmCircles" -> ArmCircles_reset(self)

required_landmarks(kind) ==
    CASE kind = "JumpingJack" -> JumpingJack_required_landmarks
      [] kind = "Squat" -> Squat_required_landmarks
      [] kind = "Situp" -> Situp_required_landmarks
      [] kind = "PushUp" -> PushUp_required_landmarks
      [] kind = "Plank" -> Plank_required_landmarks
      [] kind = "Burpee" -> Burpee_required_landmarks
      [] kind = "Lunge" -> Lunge_required_landmarks
      [] kind = "Kick" -> Kick_required_landmarks
      [] kind = "ArmCircles" -> ArmCircles_required_landmarks

(***************************************************************************)
(* The inputs a detector is driven with: the poses of its exercise in the  *)
(* landmark encoding it reads, and frames that are defective (a landmark   *)
(* omitted, a landmark of low visibility, no landmark at all, the other    *)
(* encoding).                                                              *)
(***************************************************************************)
Poses(kind) ==
    CASE kind = "JumpingJack" -> {"jj_closed_fixture", "jj_open_fixture", "jj_crossed", "jj_half"}
      [] kind = "Squat" -> {"stand", "squat_low", "squat_shallow", "squat_mid"}
      [] kind = "Situp" -> {"situp_lying", "situp_sitting", "situp_low", "situp_mid"}
      [] kind = "PushUp" -> {"pushup_up", "pushup_down", "pushup_mid", "pushup_upright"}
      [] kind = "Plank" -> {"plank_hold", "plank_shift", "plank_sag", "stand"}
      [] kind = "Burpee" -> {"burpee_stand", "burpee_squat", "burpee_plank"}
      [] kind = "Lunge" -> {"stand", "lunge_down", "lunge_half"}
      [] kind = "Kick" -> {"stand", "kick_out", "kick_high", "kick_chamber"}
      [] kind = "ArmCircles" -> {"stand"}

\* the encoding the detector's visibility check reads
Encoding(kind) == IF kind \in {"Lunge", "Kick"} THEN "dict" ELSE "tuple"

Probe == {NOSE, LEFT_SHOULDER, LEFT_HIP}

PoseFrames(kind) == {Frame(pose, Encoding(kind), {}, {}) : pose \in Poses(kind)}

EmptyFrame(kind) == Frame("stand", Encoding(kind), AllLandmarks, {})

OtherEncoding(kind) ==
    Frame(CHOOSE p \in Poses(kind) : TRUE, IF Encoding(kind) = "dict" THEN "tuple" ELSE "dict",
          {}, {})

DefectFrames(kind) ==
    LET pose == CHOOSE p \in Poses(kind) : TRUE
    IN  {Frame(pose, Encoding(kind), {i}, {}) : i \in Probe}
        \cup {Frame(pose, Encoding(kind), {}, {i}) : i \in Probe}
        \cup {EmptyFrame(kind), OtherEncoding(kind)}

Frames(kind) == PoseFrames(kind) \cup DefectFrames(kind)

\* the frames before the latest one: only these detectors read them
PreviousFrames(kind, current) ==
    IF kind \in {"Kick", "ArmCircles"}
    THEN PoseFrames(kind) \cup {EmptyFrame(kind), OtherEncoding(kind)}
    ELSE IF kind = "Burpee"
    THEN {current, Frame("burpee_plank", "tuple", {}, {}), EmptyFrame(kind)}
    ELSE {current}

\* the landmark histories of a call: none, one or two frames, and three
\* for the detector that asks for three
Histories(kind) ==
    {<<>>}
    \cup {<<c>> : c \in PoseFrames(kind)}
    \cup UNION {{<<p, c>> : p \in PreviousFrames(kind, c)} : c \in Frames(kind)}
    \cup (IF kind = "Kick"
          THEN UNION {{<<p, p, c>> : p \in PreviousFrames(kind, c)} : c \in Frames(kind)}
          ELSE {})

\* the latest frame omits a landmark the detector requires
OmitsRequired(kind, h) ==
    /\ h # <<>>
    /\ \E i \in 1..Len(required_landmarks(kind)) :
           required_landmarks(kind)[i] \in h[Len(h)].missing

\* the latest frame holds every required landmark, one of them below the threshold
LowRequired(kind, h) ==
    /\ h # <<>>
    /\ ~OmitsRequired(kind, h)
    /\ \E i \in 1..Len(required_landmarks(kind)) :
           required_landmarks(kind)[i] \in h[Len(h)].low

\* the calls the bounds of the model allow on a detector in state self, r
\* being what the call does
WithinBounds(kind, self, r) ==
    /\ self.rep_count < MaxReps \/ r.s.rep_count = self.rep_count
    /\ kind = "Lunge" => self.consecutive_matching_frames < MaxCount
    /\ kind = "Kick" => self.consecutive_detection_counter < MaxCount
    /\ kind = "Burpee" => Len(self.phase_sequence) < MaxLog

(***************************************************************************)
(* Detector-level runs: one detector object of the kind sel, constructed   *)
(* with the default arguments, is driven by detect() and reset() calls     *)
(* with arbitrary landmark histories.  det is that object; the manager is  *)
(* not used.                                                               *)
(***************************************************************************)
NoCall ==
    [op |-> "construct", ret |-> FALSE, exc |-> "none", hlen |-> 0, omits |-> FALSE,
     low |-> FALSE]

(***************************************************************************)
(* The snapshot a caller keeps.  _get_current_state copies the active set  *)
(* and the counts and makes a shallow copy of session_stats: the copy has  *)
(* its own total_reps and last_active and refers to the exercise_durations *)
(* dict of the manager.  returned is what the dict held when it was        *)
(* returned, current what it holds now; aliased tells that its             *)
(* exercise_durations is still the dict the manager updates.  tracked      *)
(* tells whether the caller keeps the snapshots at all.                    *)
(***************************************************************************)
NoSnapshot ==
    [tracked |-> FALSE, held |-> FALSE, aliased |-> FALSE, returned |-> <<>>, current |-> <<>>]

\* ExerciseDetectorManager._get_current_state
get_current_state(active, counts, stats) ==
    [active_exercises |-> active, counts |-> counts, session_stats |-> stats]

\* the caller replaces the snapshot it holds by the one just returned
returned_snapshot(snap, state) ==
    IF ~snap.tracked THEN snap
    ELSE [tracked |-> TRUE, held |-> TRUE, aliased |-> TRUE, returned |-> state,
          current |-> state]

\* what the held snapshot reads after a manager operation that left
\* new_durations in the manager's exercise_durations dict; rebound tells that
\* the operation replaced session_stats by a new dict
seen_after(snap, new_durations, rebound) ==
    IF ~snap.held THEN snap
    ELSE [snap EXCEPT
            !.current.session_stats.exercise_durations =
                IF snap.aliased THEN new_durations ELSE @,
            !.aliased = @ /\ ~rebound]

NoManager ==
    /\ snapshot = NoSnapshot
    /\ landmark_history = <<>>
    /\ detectors = <<>>
    /\ active_exercises = {}
    /\ exercise_counts = <<>>
    /\ session_stats = [total_reps |-> 0, exercise_durations |-> <<>>, last_active |-> "None"]

NoTwin == [on |-> FALSE, d |-> JumpingJack_init, ret |-> FALSE, exc |-> "none"]

Init ==
    /\ sel \in Kinds
    /\ det = Construct(sel)
    /\ twin = NoTwin
    /\ last = NoCall
    /\ clock = 0
    /\ NoManager

\* what a detect call leaves in last
Called(kind, h, r) ==
    [op |-> "detect", ret |-> r.ret, exc |-> r.exc, hlen |-> Len(h),
     omits |-> OmitsRequired(kind, h), low |-> LowRequired(kind, h)]

\* det.detect(h); time.time() has advanced by dt when Plank reads it
Detect ==
    \E h \in Histories(sel), dt \in 0..1 :
        /\ sel \in Kinds
        /\ dt = 1 => (sel = "Plank" /\ clock < MaxClock)
        /\ \E r \in {detect(sel, det, h, clock + dt)} :
               /\ WithinBounds(sel, det, r)
               /\ det' = r.s
               /\ last' = Called(sel, h, r)
        /\ clock' = clock + dt
        /\ UNCHANGED <<sel, twin, mgrvars>>

\* det.reset()
Reset ==
    /\ sel \in Kinds
    /\ det' = reset(sel, det)
    /\ last' = [NoCall EXCEPT !.op = "reset"]
    /\ UNCHANGED <<sel, twin, clock, mgrvars>>

Next == Detect \/ Reset

Spec == Init /\ [][Next]_vars

(***************************************************************************)
(* Twin runs: a JumpingJackDetector is used, reset, and used again; at     *)
(* each reset() a second JumpingJackDetector is constructed, and from then *)
(* on both objects are given the same detect() calls.                      *)
(***************************************************************************)
TwinInit ==
    /\ sel = "JumpingJack"
    /\ det = JumpingJack_init
    /\ twin = NoTwin
    /\ last = NoCall
    /\ clock = 0
    /\ NoManager

TwinDetect ==
    \E h \in Histories("JumpingJack") :
        \E r \in {JumpingJack_detect(det, h)}, t \in {JumpingJack_detect(twin.d, h)} :
            /\ WithinBounds("JumpingJack", det, r)
            /\ det' = r.s
            /\ twin' = IF twin.on THEN [twin EXCEPT !.d = t.s, !.ret = t.ret, !.exc = t.exc]
                       ELSE twin
            /\ last' = Called("JumpingJack", h, r)
            /\ UNCHANGED <<sel, clock, mgrvars>>

TwinReset ==
    /\ det' = JumpingJack_reset(det)
    /\ twin' = [NoTwin EXCEPT !.on = TRUE]
    /\ last' = [NoCall EXCEPT !.op = "reset"]
    /\ UNCHANGED <<sel, clock, mgrvars>>

TwinNext == TwinDetect \/ TwinReset

TwinSpec == TwinInit /\ [][TwinNext]_vars

(***************************************************************************)
(* ExerciseDetectorManager (core/detector_manager.py).                     *)
(*                                                                         *)
(* _load_detectors: the module name is the class name without "Detector",  *)
(* lower-cased, a trailing "s" dropped, "_detector" appended; the class is *)
(* loaded when fitfighter/detectors holds that module, the module imports  *)
(* and it defines the class.  ImportError and AttributeError skip it.      *)
(***************************************************************************)
DefaultDetectors ==
    <<"JumpingJackDetector", "PushupDetector", "LungeDetector", "ArmCirclesDetector",
      "PlankDetector", "SitupDetector", "SquatDetector", "BurpeeDetector">>

module_name(detector_class_name) ==
    CASE detector_class_name = "JumpingJackDetector" -> "jumpingjack_detector"
      [] detector_class_name = "PushupDetector" -> "pushup_detector"
      [] detector_class_name = "LungeDetector" -> "lunge_detector"
      [] detector_class_name = "ArmCirclesDetector" -> "armcircle_detector"
      [] detector_class_name = "PlankDetector" -> "plank_detector"
      [] detector_class_name = "SitupDetector" -> "situp_detector"
      [] detector_class_name = "SquatDetector" -> "squat_detector"
      [] detector_class_name = "BurpeeDetector" -> "burpee_detector"
      [] detector_class_name = "KickDetector" -> "kick_detector"

\* the modules of fitfighter/detectors that import without error, and the
\* detector class each defines (squat_detector and pushup_detector import
\* calculate_angle, which utils/angle_calculator.py does not define)
ImportableModules ==
    [ jumping_jack_detector |-> "JumpingJackDetector",
      lunge_detector |-> "LungeDetector",
      arm_circles_detector |-> "ArmCirclesDetector",
      plank_detector |-> "PlankDetector",
      situp_detector |-> "SitupDetector",
      burpee_detector |-> "BurpeeDetector",
      kick_detector |-> "KickDetector" ]

\* the name a loaded detector is registered under
detector_name(detector_class_name) ==
    CASE detector_class_name = "LungeDetector" -> "lunge"
      [] detector_class_name = "PlankDetector" -> "plank"
      [] detector_class_name = "SitupDetector" -> "situp"
      [] detector_class_name = "BurpeeDetector" -> "burpee"
      [] detector_class_name = "KickDetector" -> "kick"
      [] OTHER -> "none"

RECURSIVE load_detectors(_)
load_detectors(detectors_to_load) ==
    IF detectors_to_load = <<>> THEN <<>>
    ELSE LET detector_class_name == Head(detectors_to_load)
             module == module_name(detector_class_name)
             loaded == /\ module \in DOMAIN ImportableModules
                       /\ ImportableModules[module] = detector_class_name
         IN  (IF loaded THEN <<detector_name(detector_class_name)>> ELSE <<>>)
             \o load_detectors(Tail(detectors_to_load))

\* the detector class behind a registered name
KindOf(name) ==
    CASE name = "lunge" -> "Lunge"
      [] name = "plank" -> "Plank"
      [] name = "situp" -> "Situp"
      [] name = "burpee" -> "Burpee"
      [] name = "kick" -> "Kick"
      [] name = "jumpingjack" -> "JumpingJack"

Range(seq) == {seq[i] : i \in 1..Len(seq)}

RECURSIVE Sum(_)
Sum(f) ==
    IF DOMAIN f = {} THEN 0
    ELSE LET k == CHOOSE x \in DOMAIN f : TRUE
         IN  f[k] + Sum([x \in DOMAIN f \ {k} |-> f[x]])

\* ExerciseDetectorManager.__init__ after _load_detectors registered names
ManagerInit(names) ==
    /\ landmark_history = <<>>
    /\ detectors = names
    /\ det = [n \in Range(names) |-> Construct(KindOf(n))]
    /\ active_exercises = {}
    /\ exercise_counts = [n \in Range(names) |-> 0]
    /\ session_stats = [total_reps |-> 0,
                        exercise_durations |-> [n \in Range(names) |-> 0],
                        last_active |-> "None"]

\* lines 121-135: what the loop does with the outcome r of one detect call;
\* an exception keeps what the detector assigned before it and nothing else.
\* st.ok records that every call made was within the bounds of the model.
record_call(st, exercise_name, r) ==
    LET ok == /\ st.ok
              /\ WithinBounds(KindOf(exercise_name), st.det[exercise_name], r)
              /\ r.ret => st.session_stats.exercise_durations[exercise_name] < MaxDuration
    IN  IF r.exc # "none"
        THEN [st EXCEPT !.det[exercise_name] = r.s, !.ok = ok, !.exc = r.exc,
                        !.called = @ \cup {exercise_name}]
        ELSE [st EXCEPT
                !.det[exercise_name] = r.s,
                !.ok = ok,
                !.called = @ \cup {exercise_name},
                !.active_exercises =
                    IF r.ret THEN @ \cup {exercise_name} ELSE @ \ {exercise_name},
                !.session_stats.last_active =
                    IF r.ret /\ exercise_name \notin st.active_exercises
                    THEN exercise_name ELSE @,
                !.exercise_counts[exercise_name] = r.s.rep_count,
                !.session_stats.exercise_durations[exercise_name] =
                    IF r.ret THEN @ + 1 ELSE @,
                !.detected = IF r.ret THEN @ \cup {exercise_name} ELSE @]

\* lines 120-135: the detectors are called in dict order; the first call
\* that raises ends the loop
RECURSIVE run_detectors(_, _, _, _)
run_detectors(names, st, history, current_time) ==
    IF names = <<>> \/ st.exc # "none" THEN st
    ELSE run_detectors(Tail(names),
                       record_call(st, Head(names),
                                   detect(KindOf(Head(names)), st.det[Head(names)],
                                          history, current_time)),
                       history, current_time)

\* the frames the manager is given
ManagerFrames ==
    {Frame("plank_hold", "tuple", {}, {}),
     Frame("stand", "tuple", {}, {}),
     Frame("stand", "tuple", AllLandmarks, {})}

\* the names remove_detector and add_detector are called with
ManagerNames == {"lunge", "plank", "situp"}

AddedNames == {"plank"}

NoManagerCall ==
    [op |-> "construct", exc |-> "none", ret |-> FALSE, buffered |-> 0, detected |-> {},
     called |-> {}, pushed |-> <<>>, name |-> "none"]

MgrInit ==
    /\ sel = "manager"
    /\ twin = NoTwin
    /\ last = NoManagerCall
    /\ clock = 0
    /\ snapshot = NoSnapshot
    /\ \E detectors_to_load \in {DefaultDetectors, <<>>} :
           ManagerInit(load_detectors(detectors_to_load))

\* a process_landmarks that runs the detectors on the first frame too
ProcessLandmarks_no_warming ==
    \E landmarks \in ManagerFrames, dt \in 0..1 :
        LET history == DequeAppend(landmark_history, landmarks, history_size)
            start == [det |-> det, active_exercises |-> active_exercises,
                      exercise_counts |-> exercise_counts, session_stats |-> session_stats,
                      exc |-> "none", detected |-> {}, called |-> {}, ok |-> TRUE]
        IN  /\ dt = 1 => (Len(history) >= 2 /\ "plank" \in Range(detectors) /\ clock < MaxClock)
            /\ landmark_history' = history
            /\ clock' = clock + dt
            /\ \E st \in {run_detectors(detectors, start, history, clock + dt)} :
                   /\ st.ok
                   /\ det' = st.det
                   /\ active_exercises' = st.active_exercises
                   /\ exercise_counts' = st.exercise_counts
                   /\ session_stats' =
                          IF Len(history) >= 2 /\ st.exc = "none"
                          THEN [st.session_stats EXCEPT !.total_reps = Sum(st.exercise_counts)]
                          ELSE st.session_stats
                   /\ last' = [NoManagerCall EXCEPT !.op = "process_landmarks",
                                                    !.exc = st.exc,
                                                    !.buffered = Len(history),
                                                    !.detected = st.detected,
                                                    !.called = st.called,
                                                    !.pushed = <<landmarks>>]
                   /\ snapshot' =
                          IF st.exc # "none"
                          THEN seen_after(snapshot, session_stats'.exercise_durations, FALSE)
                          ELSE returned_snapshot(snapshot,
                                   get_current_state(active_exercises', exercise_counts',
                                                     session_stats'))
            /\ UNCHANGED <<sel, twin, detectors>>

\* manager.process_landmarks(landmarks)
ProcessLandmarks ==
    \E landmarks \in ManagerFrames, dt \in 0..1 :
        LET history == DequeAppend(landmark_history, landmarks, history_size)
            start == [det |-> det, active_exercises |-> active_exercises,
                      exercise_counts |-> exercise_counts, session_stats |-> session_stats,
                      exc |-> "none", detected |-> {}, called |-> {}, ok |-> TRUE]
        IN  /\ dt = 1 => (Len(history) >= 2 /\ "plank" \in Range(detectors) /\ clock < MaxClock)
            /\ landmark_history' = history
            /\ clock' = clock + dt
            /\ \E st \in {IF Len(history) < 2 THEN start
                          ELSE run_detectors(detectors, start, history, clock + dt)} :
                   /\ st.ok
                   /\ det' = st.det
                   /\ active_exercises' = st.active_exercises
                   /\ exercise_counts' = st.exercise_counts
                   /\ session_stats' =
                          IF Len(history) >= 2 /\ st.exc = "none"
                          THEN [st.session_stats EXCEPT !.total_reps = Sum(st.exercise_counts)]
                          ELSE st.session_stats
                   /\ last' = [NoManagerCall EXCEPT !.op = "process_landmarks",
                                                    !.exc = st.exc,
                                                    !.buffered = Len(history),
                                                    !.detected = st.detected,
                                                    !.called = st.called,
                                                    !.pushed = <<landmarks>>]
                   /\ snapshot' =
                          IF st.exc # "none"
                          THEN seen_after(snapshot, session_stats'.exercise_durations, FALSE)
                          ELSE returned_snapshot(snapshot,
                                   get_current_state(active_exercises', exercise_counts',
                                                     session_stats'))
            /\ UNCHANGED <<sel, twin, detectors>>

\* an add_detector that gives the new name no duration entry
AddDetector_no_duration_entry ==
    \E name \in AddedNames :
        /\ detectors' = IF name \in Range(detectors) THEN detectors ELSE Append(detectors, name)
        /\ det' = [n \in DOMAIN det \cup {name} |->
                      IF n = name THEN Construct(KindOf(name)) ELSE det[n]]
        /\ exercise_counts' = [n \in DOMAIN exercise_counts \cup {name} |->
                                  IF n = name THEN 0 ELSE exercise_counts[n]]
        /\ last' = [NoManagerCall EXCEPT !.op = "add_detector", !.name = name]
        /\ snapshot' = seen_after(snapshot, session_stats.exercise_durations, FALSE)
        /\ UNCHANGED <<sel, twin, clock, landmark_history, active_exercises, session_stats>>

\* manager.add_detector(name, a newly constructed detector)
AddDetector ==
    \E name \in AddedNames :
        /\ detectors' = IF name \in Range(detectors) THEN detectors ELSE Append(detectors, name)
        /\ det' = [n \in DOMAIN det \cup {name} |->
                      IF n = name THEN Construct(KindOf(name)) ELSE det[n]]
        /\ exercise_counts' = [n \in DOMAIN exercise_counts \cup {name} |->
                                  IF n = name THEN 0 ELSE exercise_counts[n]]
        /\ session_stats' =
               [session_stats EXCEPT !.exercise_durations =
                   [n \in DOMAIN @ \cup {name} |-> IF n = name THEN 0 ELSE @[n]]]
        /\ last' = [NoManagerCall EXCEPT !.op = "add_detector", !.name = name]
        /\ snapshot' = seen_after(snapshot, session_stats'.exercise_durations, FALSE)
        /\ UNCHANGED <<sel, twin, clock, landmark_history, active_exercises>>

\* a dict or list without the entries of name
Without(seq, name) == SelectSeq(seq, LAMBDA n : n # name)

Del(f, name) == [n \in DOMAIN f \ {name} |-> f[n]]

\* a remove_detector that leaves the name in the active set
RemoveDetector_keeps_active ==
    \E name \in ManagerNames :
        /\ IF name \in Range(detectors)
           THEN /\ detectors' = Without(detectors, name)
                /\ det' = Del(det, name)
                /\ exercise_counts' = Del(exercise_counts, name)
                /\ session_stats' =
                       [session_stats EXCEPT !.exercise_durations = Del(@, name)]
                /\ active_exercises' = active_exercises
           ELSE UNCHANGED <<detectors, det, exercise_counts, session_stats, active_exercises>>
        /\ snapshot' = seen_after(snapshot, session_stats'.exercise_durations, FALSE)
        /\ last' = [NoManagerCall EXCEPT !.op = "remove_detector", !.name = name,
                                         !.ret = name \in Range(detectors)]
        /\ UNCHANGED <<sel, twin, clock, landmark_history>>

\* manager.remove_detector(name)
RemoveDetector ==
    \E name \in ManagerNames :
        /\ IF name \in Range(detectors)
           THEN /\ detectors' = Without(detectors, name)
                /\ det' = Del(det, name)
                /\ exercise_counts' = Del(exercise_counts, name)
                /\ session_stats' =
                       [session_stats EXCEPT !.exercise_durations = Del(@, name)]
                /\ active_exercises' = active_exercises \ {name}
           ELSE UNCHANGED <<detectors, det, exercise_counts, session_stats, active_exercises>>
        /\ snapshot' = seen_after(snapshot, session_stats'.exercise_durations, FALSE)
        /\ last' = [NoManagerCall EXCEPT !.op = "remove_detector", !.name = name,
                                         !.ret = name \in Range(detectors)]
        /\ UNCHANGED <<sel, twin, clock, landmark_history>>

\* a reset_session that keeps the total
ResetSession_keeps_total ==
    /\ det' = [n \in DOMAIN det |-> reset(KindOf(n), det[n])]
    /\ active_exercises' = {}
    /\ exercise_counts' = [n \in Range(detectors) |-> 0]
    /\ session_stats' = [total_reps |-> session_stats.total_reps,
                         exercise_durations |-> [n \in Range(detectors) |-> 0],
                         last_active |-> "None"]
    /\ last' = [NoManagerCall EXCEPT !.op = "reset_session"]
    /\ snapshot' = seen_after(snapshot, session_stats.exercise_durations, TRUE)
    /\ UNCHANGED <<sel, twin, clock, landmark_history, detectors>>

\* manager.reset_session()
ResetSession ==
    /\ det' = [n \in DOMAIN det |-> reset(KindOf(n), det[n])]
    /\ active_exercises' = {}
    /\ exercise_counts' = [n \in Range(detectors) |-> 0]
    /\ session_stats' = [total_reps |-> 0,
                         exercise_durations |-> [n \in Range(detectors) |-> 0],
                         last_active |-> "None"]
    /\ last' = [NoManagerCall EXCEPT !.op = "reset_session"]
    /\ snapshot' = seen_after(snapshot, session_stats.exercise_durations, TRUE)
    /\ UNCHANGED <<sel, twin, clock, landmark_history, detectors>>

MgrNext == ProcessLandmarks \/ AddDetector \/ RemoveDetector \/ ResetSession

MgrSpec == MgrInit /\ [][MgrNext]_vars

\* a manager of the plank detector whose caller keeps the snapshot that
\* process_landmarks returned last
SnapInit ==
    /\ sel = "manager"
    /\ twin = NoTwin
    /\ last = NoManagerCall
    /\ clock = 0
    /\ snapshot = [NoSnapshot EXCEPT !.tracked = TRUE]
    /\ ManagerInit(load_detectors(<<"PlankDetector">>))

SnapSpec == SnapInit /\ [][MgrNext]_vars

(***************************************************************************)
(* Properties.                                                             *)
(***************************************************************************)

\* C1: for every detector, a detect() call leaves rep_count as it was or
\* one higher; between resets rep_count never decreases.
C1_RepCountGrowsByAtMostOne ==
    [][last'.op = "detect" =>
          (det'.rep_count = det.rep_count \/ det'.rep_count = det.rep_count + 1)]_vars

\* a detect() call has just counted a burpee
C1_RepCounted ==
    /\ sel = "Burpee"
    /\ last.op = "detect"
    /\ det.rep_count = 1
    /\ det.cooldown_counter = Burpee_cooldown_frames

\* C2: in every state of the manager, session_stats['total_reps'] is the
\* sum of the values of exercise_counts.
C2_TotalRepsIsSumOfCounts ==
    session_stats.total_reps = Sum(exercise_counts)

\* C3: after a process_landmarks call made with at least 2 frames
\* buffered, active_exercises is the set of the registered names whose
\* detect() returned True in that call.
C3_ActiveIsWhatDetected ==
    (last.op = "process_landmarks" /\ last.buffered >= 2)
        => active_exercises = last.detected

\* C4: process_landmarks returns without raising for every frame, and no
\* accumulated rep count is lost or lowered by it.
C4_ProcessLandmarksNeverRaises ==
    [][last'.op = "process_landmarks" =>
          /\ last'.exc = "none"
          /\ \A n \in DOMAIN exercise_counts :
                 /\ n \in DOMAIN exercise_counts'
                 /\ exercise_counts'[n] >= exercise_counts[n]]_vars

\* C5: for every detector, detect() on a history of at least 2 frames
\* whose latest frame omits a required landmark id returns False without
\* raising and leaves rep_count unchanged.
C5_OmittedLandmarkGivesFalse ==
    [][(last'.op = "detect" /\ last'.hlen >= 2 /\ last'.omits) =>
          /\ last'.exc = "none"
          /\ last'.ret = FALSE
          /\ det'.rep_count = det.rep_count]_vars

\* C6: for every detector in any state, detect() on a latest frame that
\* holds a required landmark below confidence_threshold returns False and
\* leaves rep_count unchanged.
C6_LowVisibilityGivesFalse ==
    [][(last'.op = "detect" /\ last'.hlen >= 2 /\ last'.low) =>
          /\ last'.exc = "none"
          /\ last'.ret = FALSE
          /\ det'.rep_count = det.rep_count]_vars

\* C7: for every detector in any state, detect() on a history of fewer
\* than 2 frames returns False and leaves rep_count unchanged.
C7_ShortHistoryGivesFalse ==
    [][(last'.op = "detect" /\ last'.hlen < 2) =>
          /\ last'.exc = "none"
          /\ last'.ret = FALSE
          /\ det'.rep_count = det.rep_count]_vars

\* detect() was called with one frame on a detector that is active and has counted
C7_ShortHistoryOnUsedDetector ==
    /\ last.op = "detect"
    /\ last.hlen = 1
    /\ det.rep_count = 1
    /\ det.is_active

\* the fields reset() is to put back: the counts, the active flag and the
\* phase, consecutive-match and cooldown counters
ResetFields ==
    {"rep_count", "is_active", "current_phase", "position_state", "state",
     "cooldown_counter", "consecutive_matching_frames", "consecutive_detection_counter"}

\* C8: for every detector, reset() sets rep_count to 0, is_active to
\* False and every phase, consecutive-match and cooldown counter to its
\* value at construction, and leaves the thresholds unchanged.
C8_ResetRestoresConstruction ==
    [][last'.op = "reset" =>
          /\ \A f \in DOMAIN det' \cap ResetFields : det'[f] = Construct(sel)[f]
          /\ det'.confidence_threshold = det.confidence_threshold]_vars

\* what can be observed of a JumpingJackDetector: every field but debug_values
Observable(self) == [f \in DOMAIN self \ {"debug_values"} |-> self[f]]

\* C9: a JumpingJackDetector that has been reset is equivalent to one
\* constructed at that moment: rep_count 0, is_active False, current_phase
\* "unknown", cooldown_counter 0, position_history empty, and the same
\* detect() results and rep counts on every sequence of calls that follows.
C9_ResetEquivalentToFresh ==
    twin.on =>
        /\ Observable(det) = Observable(twin.d)
        /\ last.op = "reset" => Observable(det) = Observable(JumpingJack_init)
        /\ last.op = "detect" => (last.ret = twin.ret /\ last.exc = twin.exc)

\* after a reset both detectors have counted a repetition and are cooling down
C9_RepCountedAfterReset ==
    /\ twin.on
    /\ last.op = "detect"
    /\ det.rep_count = 1
    /\ twin.d.rep_count = 1
    /\ det.cooldown_counter = JumpingJack_cooldown_frames

\* closed_frame and open_frame of test_jumping_jack_full_cycle: the twelve
\* landmarks the detector requires, all of visibility 1.0
closed_frame ==
    Frame("jj_closed_fixture", "tuple", AllLandmarks \ Range(JumpingJack_required_landmarks), {})

open_frame ==
    Frame("jj_open_fixture", "tuple", AllLandmarks \ Range(JumpingJack_required_landmarks), {})

\* C10: on a fresh JumpingJackDetector the calls on [closed,closed,closed],
\* [closed,closed,open], [closed,open,open], [open,open,closed] and
\* [open,closed,closed] leave current_phase closed, opening, open, closing,
\* closed, return True on the fourth call only, and end with rep_count 1.
C10_FullCycleCountsOneRep ==
    (sel = "JumpingJack" /\ last.op = "construct") =>
        LET c1 == JumpingJack_detect(det, <<closed_frame, closed_frame, closed_frame>>)
            c2 == JumpingJack_detect(c1.s, <<closed_frame, closed_frame, open_frame>>)
            c3 == JumpingJack_detect(c2.s, <<closed_frame, open_frame, open_frame>>)
            c4 == JumpingJack_detect(c3.s, <<open_frame, open_frame, closed_frame>>)
            c5 == JumpingJack_detect(c4.s, <<open_frame, closed_frame, closed_frame>>)
        IN  /\ <<c1.exc, c2.exc, c3.exc, c4.exc, c5.exc>>
                 = <<"none", "none", "none", "none", "none">>
            /\ <<c1.s.current_phase, c2.s.current_phase, c3.s.current_phase,
                 c4.s.current_phase, c5.s.current_phase>>
                 = <<"closed", "opening", "open", "closing", "closed">>
            /\ <<c1.ret, c2.ret, c3.ret, c4.ret, c5.ret>> = <<FALSE, FALSE, FALSE, TRUE, FALSE>>
            /\ c5.s.rep_count = 1

\* the number of frames of a stable run: the length of the detectors' windows
StableRun == 5

\* n detect() calls in a row whose latest frame is the pose
RECURSIVE JumpingJack_run(_, _, _)
JumpingJack_run(self, n, pose) ==
    IF n = 0 THEN self
    ELSE LET f == Frame(pose, "tuple", {}, {})
         IN  JumpingJack_detect(JumpingJack_run(self, n - 1, pose), <<f, f>>).s

\* C11: when the frames are stably closed, then stably open, then stably
\* closed again, with every landmark visible and no cooldown pending, the
\* jumping-jack detector commits exactly one rep, on the detect() call at
\* which the phase becomes "closed" again.
C11_CleanCycleCommitsOneRep ==
    (sel = "JumpingJack" /\ det.cooldown_counter = 0) =>
        LET closed == JumpingJack_run(det, StableRun, "jj_crossed")
            open == JumpingJack_run(closed, StableRun, "jj_open_fixture")
            after(k) == JumpingJack_run(open, k, "jj_crossed")
        IN  (closed.cooldown_counter = 0 /\ closed.current_phase = "closed"
             /\ open.current_phase = "open") =>
                \E k \in 1..StableRun :
                    /\ after(k).current_phase = "closed"
                    /\ after(k - 1).current_phase # "closed"
                    /\ after(k - 1).rep_count = closed.rep_count
                    /\ after(k).rep_count = closed.rep_count + 1
                    /\ after(StableRun).rep_count = closed.rep_count + 1

\* n detect() calls in a row on a detector of the kind, the pose the latest
\* frame of each; the state the detector is left in, also by a call that raises
RECURSIVE Run(_, _, _, _)
Run(kind, self, n, pose) ==
    IF n = 0 THEN self
    ELSE LET f == Frame(pose, Encoding(kind), {}, {})
         IN  detect(kind, Run(kind, self, n - 1, pose), <<f, f>>, 0).s

\* the poses each detector classifies as up, as down and as neither
UpPose(kind) ==
    CASE kind = "Squat" -> "stand" [] kind = "Situp" -> "situp_sitting" [] kind = "Lunge" -> "stand"

DownPose(kind) ==
    CASE kind = "Squat" -> "squat_low" [] kind = "Situp" -> "situp_lying"
      [] kind = "Lunge" -> "lunge_down"

MidPose(kind) ==
    CASE kind = "Squat" -> "squat_mid" [] kind = "Situp" -> "situp_mid"
      [] kind = "Lunge" -> "lunge_half"

\* the detector after a run of up frames, a run of down frames, t frames in
\* between and a run of up frames again
DownUpCycle(kind, self, t) ==
    LET rest == Run(kind, self, StableRun, UpPose(kind))
        down == Run(kind, rest, StableRun, DownPose(kind))
        mid == Run(kind, down, t, MidPose(kind))
    IN  [rest |-> rest, down |-> down, up |-> Run(kind, mid, StableRun, UpPose(kind))]

\* C12: for the squat, sit-up and lunge detectors a sustained run of down
\* frames followed, possibly through transitioning frames, by a sustained
\* run of up frames, with the vertical range above the minimum and no
\* cooldown pending, increments rep_count by exactly one.
C12_DownUpCycleCountsOneRep ==
    (sel \in {"Squat", "Situp", "Lunge"} /\ last.op = "construct") =>
        \A t \in 0..1 :
            LET c == DownUpCycle(sel, det, t)
            IN  /\ c.down.rep_count = c.rest.rep_count
                /\ c.up.rep_count = c.rest.rep_count + 1

\* the vertical range the detector has observed, in hundredths; the lunge
\* detector keeps none
ObservedRange(kind, self) ==
    CASE kind = "Squat" -> self.lowest_hip_position - self.highest_hip_position
      [] kind = "Situp" -> self.lowest_position - self.highest_position
      [] OTHER -> 0

\* C13: the squat, sit-up and lunge detectors count no rep while the
\* observed vertical range of the reference point does not exceed the
\* minimum range (0.15): a detect() call that changes rep_count is one at
\* which the observed range is above it.
C13_NoRepBelowMinimumRange ==
    [][(sel \in {"Squat", "Situp", "Lunge"} /\ last'.op = "detect"
        /\ det'.rep_count # det.rep_count) => ObservedRange(sel, det') > 15]_vars

\* a squat detector has seen a down -> up cycle over a range of 0.10 and has counted nothing
C13_ShallowSquatCycle ==
    /\ sel = "Squat"
    /\ last.op = "detect"
    /\ det.position_history = <<"down", "down", "up", "up", "up">>
    /\ det.position_state = "up"
    /\ ObservedRange(sel, det) = 10
    /\ det.rep_count = 0

\* the histories of six detect() calls whose latest frames the burpee
\* detector classifies as standing, squat, plank, squat, jump, standing
\* (the jump: the hips rise by 0.06 from the frame before)
BurpeeCycle ==
    LET stand == Frame("burpee_stand", "tuple", {}, {})
        squat == Frame("burpee_squat", "tuple", {}, {})
        plank == Frame("burpee_plank", "tuple", {}, {})
    IN  <<(<<stand, stand>>), (<<squat, squat>>), (<<plank, plank>>), (<<squat, squat>>),
          (<<plank, squat>>), (<<stand, stand>>)>>

\* the detector after each of the first n calls of a sequence of histories
RECURSIVE Burpee_feed(_, _, _)
Burpee_feed(self, histories, n) ==
    IF n = 0 THEN <<>>
    ELSE LET before == Burpee_feed(self, histories, n - 1)
             from == IF n = 1 THEN self ELSE before[n - 1]
         IN  Append(before, Burpee_detect(from, histories[n]).s)

\* C14: a freshly constructed BurpeeDetector fed visible frames classified
\* standing, squat, plank, squat, jump, standing, in that order, ends with
\* rep_count 1.
C14_BurpeeCycleCountsOneRep ==
    (sel = "Burpee" /\ last.op = "construct") =>
        LET after == Burpee_feed(det, BurpeeCycle, 6)
        IN  [n \in 1..6 |-> after[n].current_phase]
                = <<"standing", "squat", "plank", "squat", "jump", "standing">>
            => after[6].rep_count = 1

\* pattern is an ordered, not necessarily contiguous, subsequence of log
IsSubsequence(pattern, log) ==
    \E S \in SUBSET (1..Len(log)) :
        /\ Cardinality(S) = Len(pattern)
        /\ \A x \in S : log[x] = pattern[Cardinality({y \in S : y < x}) + 1]

BurpeePattern == <<"standing", "squat", "plank", "squat", "jump">>

C16_HoldCountedWhenItEnds ==
    [][(sel = "Plank" /\ last'.op = "detect") =>
          IF det.is_in_plank_position /\ ~det'.is_in_plank_position
          THEN det'.rep_count =
                   IF clock' - det.plank_start_time >= Plank_min_plank_time
                   THEN det.rep_count + 1
                   ELSE det.rep_count
          ELSE det'.rep_count = det.rep_count]_vars

\* C17: reset_session() keeps the registered detectors and puts the manager
\* back in the warming state: the process_landmarks call that follows it
\* invokes no detector.
C17_ResetSessionReturnsToWarming ==
    [][/\ last'.op = "reset_session" => detectors' = detectors
       /\ (last.op = "reset_session" /\ last'.op = "process_landmarks") =>
              last'.called = {}]_vars

\* C18: after reset_session() every exercise count is 0, total_reps is 0,
\* active_exercises is empty, every exercise duration is 0, last_active is
\* None and every registered detector's rep_count is 0.
C18_ResetSessionZeroesEverything ==
    (sel = "manager" /\ last.op = "reset_session") =>
        /\ DOMAIN exercise_counts = Range(detectors)
        /\ \A n \in DOMAIN exercise_counts : exercise_counts[n] = 0
        /\ session_stats.total_reps = 0
        /\ active_exercises = {}
        /\ DOMAIN session_stats.exercise_durations = Range(detectors)
        /\ \A n \in DOMAIN session_stats.exercise_durations :
               session_stats.exercise_durations[n] = 0
        /\ session_stats.last_active = "None"
        /\ \A n \in DOMAIN det : det[n].rep_count = 0

\* reset_session() has acted on a manager whose plank detector had been running
C18_SessionResetAfterUse ==
    /\ sel = "manager"
    /\ last.op = "reset_session"
    /\ Len(landmark_history) = 2
    /\ "plank" \in Range(detectors)
    /\ det["plank"].last_update_time = "time"
    /\ det["plank"].rep_count = 0

\* C19: while fewer than 2 frames are buffered process_landmarks invokes no
\* detector and returns without changing the active set, the counts or the
\* session statistics.
C19_WarmingChangesNothing ==
    [][(last'.op = "process_landmarks" /\ last'.buffered < 2) =>
          /\ last'.called = {}
          /\ last'.exc = "none"
          /\ det' = det
          /\ active_exercises' = active_exercises
          /\ exercise_counts' = exercise_counts
          /\ session_stats' = session_stats]_vars

\* the first frame has been pushed to a manager that has detectors registered
C19_FirstFrameBuffered ==
    /\ sel = "manager"
    /\ last.op = "process_landmarks"
    /\ last.buffered = 1
    /\ Len(landmark_history) = 1
    /\ detectors # <<>>

\* the last k elements of a sequence
LastFrames(seq, k) == SubSeq(seq, Len(seq) - k + 1, Len(seq))

\* C20: landmark_history never holds more than history_size frames; each
\* process_landmarks call leaves in it the most recent min(n, history_size)
\* frames pushed, oldest first, and no other operation changes it.
C20_HistoryKeepsMostRecent ==
    [][IF last'.op = "process_landmarks"
       THEN LET all == landmark_history \o last'.pushed
                k == IF Len(all) < history_size THEN Len(all) ELSE history_size
            IN  /\ Len(last'.pushed) = 1
                /\ landmark_history' = LastFrames(all, k)
                /\ Len(landmark_history') <= history_size
       ELSE landmark_history' = landmark_history]_vars

\* a frame was pushed to a full history (the plank detector has answered
\* twice, so at least three frames were pushed) and the oldest one was evicted
C20_OldestFrameEvicted ==
    /\ sel = "manager"
    /\ last.op = "process_landmarks"
    /\ "plank" \in Range(detectors)
    /\ session_stats.exercise_durations["plank"] = 2
    /\ Len(landmark_history) = history_size
    /\ last.pushed = <<landmark_history[history_size]>>
    /\ landmark_history[1] # landmark_history[history_size]

\* C21: remove_detector(name) for a registered name deletes the name from
\* detectors, exercise_counts, exercise_durations and active_exercises,
\* returns True and leaves the entries of every other exercise as they were;
\* for an unregistered name it returns False and changes nothing.
C21_RemoveDetectorPurgesOneName ==
    [][last'.op = "remove_detector" =>
          LET name == last'.name
          IN  IF name \in Range(detectors)
              THEN /\ last'.ret
                   /\ detectors' = Without(detectors, name)
                   /\ name \notin Range(detectors')
                   /\ DOMAIN det' = DOMAIN det \ {name}
                   /\ \A n \in DOMAIN det' : det'[n] = det[n]
                   /\ DOMAIN exercise_counts' = DOMAIN exercise_counts \ {name}
                   /\ \A n \in DOMAIN exercise_counts' :
                          exercise_counts'[n] = exercise_counts[n]
                   /\ DOMAIN session_stats'.exercise_durations =
                          DOMAIN session_stats.exercise_durations \ {name}
                   /\ \A n \in DOMAIN session_stats'.exercise_durations :
                          session_stats'.exercise_durations[n] =
                              session_stats.exercise_durations[n]
                   /\ active_exercises' = active_exercises \ {name}
              ELSE /\ ~last'.ret
                   /\ UNCHANGED <<det, landmark_history, detectors, active_exercises,
                                  exercise_counts, session_stats>>]_vars

\* the plank detector was removed while another exercise was active and had
\* accumulated active frames
C21_RegisteredNameRemoved ==
    /\ sel = "manager"
    /\ last.op = "remove_detector"
    /\ last.name = "plank"
    /\ last.ret
    /\ "plank" \notin Range(detectors)
    /\ \E n \in active_exercises : session_stats.exercise_durations[n] > 0

\* the nine exercise kinds
ExerciseKinds ==
    {"JumpingJack", "ArmCircles", "Squat", "Situp", "Lunge", "PushUp", "Plank", "Burpee",
     "Kick"}

\* C22: a manager constructed without an explicit detector list has one
\* detector registered for each of the nine exercise kinds.
C22_DefaultLoadsNineKinds ==
    (sel = "manager" /\ last.op = "construct"
        /\ detectors = load_detectors(DefaultDetectors)) =>
        /\ Len(detectors) = Cardinality(ExerciseKinds)
        /\ {KindOf(n) : n \in Range(detectors)} = ExerciseKinds

\* C23: the snapshot process_landmarks returned keeps, through every later
\* manager operation, the active_exercises, counts and session_stats
\* (exercise_durations included) it had when it was returned.
C23_SnapshotKeepsItsValues ==
    snapshot.held => snapshot.current = snapshot.returned

\* BaseExerciseDetector.__init__: history_size = 30
default_history_size == 30

\* n further detect() calls that each show the frame f; the result of every
\* call is computed before the next call is made
RECURSIVE Feed(_, _, _, _)
Feed(kind, self, n, f) ==
    IF n = 0 \/ self.rep_count < 0 THEN self
    ELSE Feed(kind, detect(kind, self, <<f, f>>, 0).s, n - 1, f)

\* what detect() returns on the last of n calls that each show the pose
last_active_value(kind, self, n, pose) ==
    LET f == Frame(pose, Encoding(kind), {}, {})
    IN  detect(kind, Feed(kind, self, n - 1, f), <<f, f>>, 0).ret

\* C24: the value detect() returns depends only on the most recent
\* history_size frames: a detector that has seen other frames before and a
\* newly constructed one, both fed the same history_size frames, return the
\* same value on the last of them.
C24_ActiveDependsOnRecentFramesOnly ==
    (sel \in {"JumpingJack", "Squat"} /\ last.op = "detect") =>
        \A pose \in Poses(sel) :
            last_active_value(sel, det, default_history_size, pose)
                = last_active_value(sel, Construct(sel), default_history_size, pose)

\* the fields in which each detector tracks the movement between calls:
\* phase, smoothing window, consecutive-match counter, rolling extrema and
\* the armed / active flag
TransientFields(kind) ==
    CASE kind = "JumpingJack" -> {"current_phase", "position_history", "is_active"}
      [] kind = "Squat" -> {"position_state", "position_history", "lowest_hip_position",
                            "highest_hip_position", "is_active"}
      [] kind = "Situp" -> {"is_in_situp_position", "position_state", "position_history",
                            "lowest_position", "highest_position", "is_active"}
      [] kind = "PushUp" -> {"is_in_pushup_position", "position_state", "lowest_position",
                             "highest_position", "is_active"}
      [] kind = "Plank" -> {"is_in_plank_position", "plank_start_time", "is_active"}
      [] kind = "Burpee" -> {"current_phase", "phase_sequence", "lowest_hip_position",
                             "highest_hip_position", "is_active"}
      [] kind = "Lunge" -> {"state", "consecutive_matching_frames", "is_active"}
      [] kind = "Kick" -> {"state", "consecutive_detection_counter", "is_active"}
      [] kind = "ArmCircles" -> {"left_wrist_positions", "right_wrist_positions",
                                 "active_arm", "circle_completion", "last_angle",
                                 "angle_history", "is_active"}

\* the detect() call that led to the state got as far as the visibility check
\* of its latest frame, and the frame failed it
FailedVisibilityCheck(kind, before, call) ==
    /\ call.op = "detect"
    /\ call.low
    /\ call.hlen >= (IF kind = "Kick" THEN 3 ELSE 2)
    /\ "cooldown_counter" \in DOMAIN before => before.cooldown_counter = 0

\* C25: a detect() call whose frame fails the visibility check leaves every
\* transient tracking field at its initial value and leaves rep_count and
\* the threshold as they were.
C25_InvisibleFrameResetsTracking ==
    [][(sel \in Kinds /\ FailedVisibilityCheck(sel, det, last')) =>
          /\ \A f \in TransientFields(sel) : det'[f] = Construct(sel)[f]
          /\ det'.rep_count = det.rep_count
          /\ det'.confidence_threshold = det.confidence_threshold]_vars

\* the detectors whose detect() returns early while a cooldown runs, and the
\* length of the cooldown of each
CooldownLength(kind) ==
    CASE kind = "JumpingJack" -> 10 [] kind = "Squat" -> 10 [] kind = "Situp" -> 10
      [] kind = "ArmCircles" -> 15 [] kind = "Burpee" -> 15 [] kind = "Kick" -> 15

CooldownKinds == {"JumpingJack", "Squat", "Situp", "ArmCircles", "Burpee", "Kick"}

\* C26: a rep commit starts a cooldown of cooldown_frames calls; a detect()
\* call made while the cooldown runs returns False, commits no rep and takes
\* at most one call off the cooldown, so the cooldown_frames calls after a
\* commit cannot commit and two commits are more than cooldown_frames calls
\* apart.
C26_CooldownBlocksReps ==
    [][(sel \in CooldownKinds /\ last'.op = "detect") =>
          /\ det.cooldown_counter > 0 =>
                 /\ ~last'.ret
                 /\ det'.rep_count = det.rep_count
                 /\ det'.cooldown_counter \in {det.cooldown_counter, det.cooldown_counter - 1}
          /\ det'.rep_count # det.rep_count =>
                 /\ det.cooldown_counter = 0
                 /\ det'.cooldown_counter = CooldownLength(sel)]_vars

\* nine detect() calls after a jumping-jack rep the cooldown still runs
C26_CooldownNearlyOver ==
    /\ sel = "JumpingJack"
    /\ last.op = "detect"
    /\ ~last.ret
    /\ det.rep_count = 1
    /\ det.cooldown_counter = 1

CycleLen == 6

\* the detector after one detect() call per pose of the sequence, in order
RECURSIVE JumpingJack_after(_, _)
JumpingJack_after(self, poses) ==
    IF poses = <<>> \/ self.rep_count < 0 THEN self
    ELSE LET f == Frame(Head(poses), "tuple", {}, {})
         IN  JumpingJack_after(JumpingJack_detect(self, <<f, f>>).s, Tail(poses))

\* C27: a jumping-jack rep is committed only if the stable 'open' phase was
\* reached after the most recent stable 'closed' phase: from a detector in
\* phase 'closed', whatever it saw before, frames that never bring the phase
\* to 'open' never increment rep_count.
C27_NoRepWithoutOpen ==
    (sel = "JumpingJack" /\ det.current_phase = "closed") =>
        \A poses \in [1..CycleLen -> {"jj_half", "jj_crossed"}] :
            (\A k \in 1..CycleLen :
                 JumpingJack_after(det, SubSeq(poses, 1, k)).current_phase # "open")
                => JumpingJack_after(det, poses).rep_count = det.rep_count

\* the window is long enough to give a phase and shows neither a stable open
\* nor a stable closed position
AmbiguousWindow(position_history) ==
    /\ Len(position_history) >= 3
    /\ JumpingJack_new_phase(position_history, "unknown") = "unknown"

\* the detect() call that led to the state classified its latest frame
FrameClassified(before, call) ==
    /\ call.op = "detect"
    /\ call.exc = "none"
    /\ call.hlen >= 2
    /\ ~call.low
    /\ ~call.omits
    /\ before.cooldown_counter = 0

\* C28: on a frame that leaves the jumping-jack window ambiguous the phase
\* becomes 'opening' after 'closed' and 'closing' after 'open', and an
\* 'opening' or 'closing' phase keeps its value.
C28_AmbiguousPhaseFollowsLastStable ==
    [][(sel = "JumpingJack" /\ FrameClassified(det, last')
            /\ AmbiguousWindow(det'.position_history)) =>
          /\ det.current_phase = "closed" => det'.current_phase = "opening"
          /\ det.current_phase = "open" => det'.current_phase = "closing"
          /\ det.current_phase \in {"opening", "closing"} =>
                 det'.current_phase = det.current_phase]_vars

\* C29: a BurpeeDetector.detect() call on a history of at least two frames
\* returns True exactly when current_phase is not 'standing' after the call
\* or the call completed a rep.
C29_BurpeeActiveIffNotStanding ==
    [][(sel = "Burpee" /\ last'.op = "detect" /\ last'.exc = "none" /\ last'.hlen >= 2) =>
          (last'.ret <=> (det'.current_phase # "standing"
                            \/ det'.rep_count # det.rep_count))]_vars

\* a log that holds the most entries the detector keeps
FullLog == [i \in 1..20 |-> IF i % 2 = 1 THEN "squat" ELSE "plank"]

NoEqualAdjacent(log) == \A i \in 1..(Len(log) - 1) : log[i] # log[i + 1]

\* C30: the burpee phase log never holds more than 20 entries nor two equal
\* adjacent entries; it receives an entry only on a detect() call whose
\* classified phase differs from the previous current phase (the oldest entry
\* is dropped from a full log, which is checked on a detector given a log of
\* 20 entries); a rep commit leaves it empty with cooldown_counter 15.
C30_BurpeeLogDiscipline ==
    [][sel = "Burpee" =>
          /\ Len(det'.phase_sequence) <= 20
          /\ NoEqualAdjacent(det'.phase_sequence)
          /\ (det'.phase_sequence # det.phase_sequence /\ det'.phase_sequence # <<>>) =>
                 /\ last'.op = "detect"
                 /\ det'.current_phase # det.current_phase
                 /\ det'.phase_sequence = Append(det.phase_sequence, det'.current_phase)
          /\ det'.rep_count > det.rep_count =>
                 (det'.phase_sequence = <<>> /\ det'.cooldown_counter = 15)
          /\ last.op = "construct" =>
                 \A new_phase \in {"squat", "plank", "transitioning"} :
                     LET full == [det EXCEPT !.phase_sequence = FullLog,
                                             !.current_phase = "plank"]
                         log == Burpee_log_phase(full, new_phase).phase_sequence
                     IN  /\ Len(log) <= 20
                         /\ NoEqualAdjacent(log)
                         /\ log = IF new_phase = "plank" THEN FullLog
                                  ELSE Append(Tail(FullLog), new_phase)]_vars

\* after a rep and its cooldown the log has received four further phase changes
C30_LogGrowsAgainAfterRep ==
    /\ sel = "Burpee"
    /\ last.op = "detect"
    /\ det.rep_count = 1
    /\ det.cooldown_counter = 0
    /\ Len(det.phase_sequence) >= 4
    /\ det.current_phase = det.phase_sequence[Len(det.phase_sequence)]

\* a push-up cycle on a detector: two frames up, two frames down, t frames
\* between down and up, two frames up; the detector after each part
PushUpCycle(self, t) ==
    LET rest == Run("PushUp", self, 2, "pushup_up")
        down == Run("PushUp", rest, 2, "pushup_down")
        mid == Run("PushUp", down, t, "pushup_mid")
        up == Run("PushUp", mid, 2, "pushup_up")
    IN  [rest |-> rest, down |-> down, mid |-> mid, up |-> up]

\* C31: a push-up cycle that is in 'down', passes through one or more
\* 'transitioning' frames and reaches 'up', with the body horizontal on every
\* frame and the observed range above min_vertical_movement, commits exactly
\* one rep.
C31_PushUpCycleCountsOneRep ==
    (sel = "PushUp" /\ last.op = "construct") =>
        \A t \in 1..2 :
            LET c == PushUpCycle(det, t)
            IN  (/\ c.down.position_state = "down"
                 /\ c.mid.position_state = "transitioning"
                 /\ c.up.position_state = "up"
                 /\ c.down.is_in_pushup_position
                 /\ c.mid.is_in_pushup_position
                 /\ c.up.is_in_pushup_position
                 /\ c.up.lowest_position - c.up.highest_position > 15)
                => c.up.rep_count = c.rest.rep_count + 1

\* C32: a kick rep is committed only on a detect() call whose immediately
\* preceding detect() call saw the strike too: the latest frame of that call
\* passed the visibility check (no occluded frame lies between the two
\* strikes) and the call left the consecutive-strike counter above 0.
C32_KickNeedsTwoConsecutiveStrikes ==
    [][(sel = "Kick" /\ last'.op = "detect" /\ det'.rep_count > det.rep_count
            /\ last.op = "detect" /\ last.hlen >= 3) =>
          /\ last.exc = "none"
          /\ ~last.low
          /\ ~last.omits
          /\ det.consecutive_detection_counter >= 1]_vars


\* ArmCirclesDetector.track_circle_movement: the angle difference with the
\* wrap-around at 180 degrees taken out
angle_diff(a, b) ==
    LET d == a - b
    IN  IF d > 180 THEN d - 360 ELSE IF d < 0 - 180 THEN d + 360 ELSE d

\* ArmCirclesDetector.track_circle_movement(side, angle)
track_circle_movement(self, side, angle) ==
    LET hist == DequeAppend(self.angle_history[side], angle, 10)
        s1 == [self EXCEPT !.angle_history[side] = hist]
        diff == angle_diff(angle, self.last_angle[side])
        magnitude == IF diff < 0 THEN 0 - diff ELSE diff
        n == IF Len(hist) < 3 THEN Len(hist) ELSE 3
        is_consistent ==
            \/ Len(hist) < 3
            \/ \A i \in 1..(n - 1) : angle_diff(hist[i + 1], hist[i]) > 0
            \/ \A i \in 1..(n - 1) : angle_diff(hist[i + 1], hist[i]) < 0
        total == self.circle_completion[side] + magnitude
    IN  IF self.last_angle[side] = None THEN [s1 EXCEPT !.last_angle[side] = angle]
        ELSE IF magnitude < 5 THEN s1
        ELSE IF is_consistent
        THEN [s1 EXCEPT !.circle_completion[side] = IF total > 360 THEN 360 ELSE total,
                        !.last_angle[side] = angle]
        ELSE [s1 EXCEPT !.last_angle[side] = angle]

\* the detector after track_circle_movement(side, a) for each angle a of a
\* sequence, in order
RECURSIVE TrackAngles(_, _, _)
TrackAngles(self, side, angles) ==
    IF angles = <<>> THEN self
    ELSE track_circle_movement(TrackAngles(self, side, SubSeq(angles, 1, Len(angles) - 1)),
                               side, angles[Len(angles)])

MaxAngles == 5

\* the sequences of arm angles tried: a quarter-turn grid and two angles
\* next to 100
AngleSeqs == UNION {[1..n -> {0, 100, 200, 300, 102, 110}] : n \in 0..MaxAngles}

\* C33: on a detect() call made when an arm's completion fraction has reached
\* 0.9, rep_count increases by exactly 1, the accumulators and angle histories
\* of both arms are reset, and cooldown_counter is set to 15.
C33_CompletedCircleCountsOneRep ==
    (sel = "ArmCircles" /\ last.op = "construct") =>
        \A angles \in AngleSeqs : \A side \in 1..2 :
            \A s \in {TrackAngles(det, side, angles)} :
                s.circle_completion[side] >= 324 =>
                    \A f \in {Frame("stand", "tuple", {}, {})} :
                        \A r \in {detect("ArmCircles", s, <<f, f>>, 0)} :
                            /\ r.s.rep_count = s.rep_count + 1
                            /\ r.s.circle_completion = <<0, 0>>
                            /\ r.s.angle_history = << <<>>, <<>> >>
                            /\ r.s.cooldown_counter = 15

\* C34: an angle adds to an arm's completion fraction only if it differs from
\* the last tracked angle by at least 5 degrees and the latest (up to 3)
\* differences between consecutive angles of that arm all have the same sign.
C34_CompletionNeedsConsistentDirection ==
    (sel = "ArmCircles" /\ last.op = "construct") =>
        \A angles \in AngleSeqs \ {<<>>} :
            \A s \in {TrackAngles(det, 1, SubSeq(angles, 1, Len(angles) - 1))} :
                \A t \in {track_circle_movement(s, 1, angles[Len(angles)])} :
                    LET hist == t.angle_history[1]
                        a == angles[Len(angles)]
                        LatestSigns ==
                            {IF angle_diff(hist[i + 1], hist[i]) > 0 THEN 1
                             ELSE IF angle_diff(hist[i + 1], hist[i]) < 0 THEN 0 - 1 ELSE 0 :
                                i \in {j \in 1..(Len(hist) - 1) : j >= Len(hist) - 3}}
                    IN  t.circle_completion[1] > s.circle_completion[1] =>
                            /\ s.last_angle[1] # None
                            /\ angle_diff(a, s.last_angle[1]) >= 5
                                  \/ angle_diff(a, s.last_angle[1]) <= 0 - 5
                            /\ Cardinality(LatestSigns) = 1


\* C35: for squat and sit-up, once the window of raw classifications holds 3
\* or more entries the voted phase is 'down' exactly when 'down' strictly
\* outnumbers both 'up' and 'transitioning', 'up' exactly when 'up' strictly
\* outnumbers both others, and 'transitioning' otherwise (ties included); a
\* rep is committed only on a step from phase 'down' to phase 'up'.
C35_MajorityVoteSmoothing ==
    [][(sel \in {"Squat", "Situp"} /\ last'.op = "detect") =>
          LET h == det'.position_history
              n(p) == Cardinality({i \in 1..Len(h) : h[i] = p})
              classified == /\ last'.hlen >= 2 /\ ~last'.low /\ ~last'.omits
                            /\ det.cooldown_counter = 0
          IN  /\ (classified /\ Len(h) >= 3) =>
                    /\ Len(h) <= 5
                    /\ det'.position_state = "down" <=>
                          (n("down") > n("up") /\ n("down") > n("transitioning"))
                    /\ det'.position_state = "up" <=>
                          (n("up") > n("down") /\ n("up") > n("transitioning"))
                    /\ det'.position_state \in {"down", "up", "transitioning"}
              /\ det'.rep_count > det.rep_count =>
                    /\ classified
                    /\ det.position_state = "down"
                    /\ det'.position_state = "up"]_vars

\* a squat or sit-up rep was just committed on a window of 3 or more entries
C35_RepOnVotedUp ==
    /\ sel \in {"Squat", "Situp"}
    /\ last.op = "detect"
    /\ det.rep_count >= 1
    /\ det.position_state = "up"
    /\ Len(det.position_history) >= 3
    /\ det.cooldown_counter = 10


MaxHold == 20

\* n further detect() calls on a kick detector, each on a frame whose
\* striking leg is extended and has moved since the frame before it
RECURSIVE KickHold(_, _)
KickHold(self, n) ==
    IF n = 0 \/ self.rep_count < 0 THEN self
    ELSE LET a == Frame(IF n % 2 = 0 THEN "kick_out" ELSE "kick_high", "dict", {}, {})
             b == Frame(IF n % 2 = 0 THEN "kick_high" ELSE "kick_out", "dict", {}, {})
         IN  KickHold(detect("Kick", self, <<a, b, a>>, 0).s, n - 1)

\* C36: while the strike condition holds on every frame the kick detector
\* commits one rep, however long the strike is held and also once the
\* cooldown is over: a fresh detector fed n >= 2 strike frames ends with
\* rep_count 1, no detector gains more than one rep from strike frames alone,
\* and one whose last processed frame was counted as a kick gains none.
C36_HeldKickCountsOnce ==
    sel = "Kick" =>
        \A n \in 1..MaxHold :
            \A s \in {KickHold(det, n)} :
                /\ s.rep_count <= det.rep_count + 1
                /\ det.last_detection_state => s.rep_count = det.rep_count
                /\ (last.op = "construct" /\ n >= 2) => s.rep_count = 1

\* a strike held past the cooldown: the call after the cooldown returns True
\* and commits nothing
C36_StrikeHeldPastCooldown ==
    /\ sel = "Kick"
    /\ last.op = "detect"
    /\ last.ret
    /\ det.rep_count = 1
    /\ det.cooldown_counter = 0
    /\ det.consecutive_detection_counter >= 3


\* C37: when the raw classification of the lunge detector differs from its
\* stable state on 3 consecutive visible frames the stable state switches to
\* it; in particular 3 consecutive frames of a deep lunge take a detector in
\* state 'up' (the state after construction) to state 'down'.
C37_LungeStateSwitchesAfterThree ==
    (sel = "Lunge" /\ det.state = "up") =>
        Run("Lunge", det, 3, "lunge_down").state = "down"


C39_ManagerKeySetsAgree ==
    sel = "manager" =>
        /\ DOMAIN det = Range(detectors)
        /\ DOMAIN exercise_counts = Range(detectors)
        /\ DOMAIN session_stats.exercise_durations = Range(detectors)
        /\ active_exercises \subseteq Range(detectors)

\* a detector was added to a manager that had lost one of its default
\* detectors while another one was active
C39_AddedWhileActive ==
    /\ sel = "manager"
    /\ last.op = "add_detector"
    /\ "lunge" \notin Range(detectors)
    /\ "burpee" \in Range(detectors)
    /\ active_exercises # {}

\* C40: session_stats['last_active'] is None or the name of a detector that
\* is currently registered.
C40_LastActiveIsRegistered ==
    sel = "manager" =>
        \/ session_stats.last_active = "None"
        \/ session_stats.last_active \in Range(detectors)

====
